---- MODULE Spec2Model ----
(***************************************************************************)
(* Name Resolution & Lazy-Sync Search Core of gov-watchdog.                *)
(*                                                                         *)
(* Part I   bills: BillService.search_bills / sync_recent_bills /          *)
(*          fetch_bill_complete over the bills collection, the upstream    *)
(*          Congress.gov source and the module-level _synced_congresses.   *)
(* Part II  members: the name query builder of members/services.py and     *)
(*          the regular-expression semantics the store applies to it;      *)
(*          MemberService.search_members.                                  *)
(* Part III votes: MemberMatcher (votes/member_matcher.py) and the vote    *)
(*          sync of sync_votes.py; BillService.get_bill.                   *)
(***************************************************************************)
EXTENDS Integers, Sequences, FiniteSets, TLC

(***************************************************************************)
(* Bounds of the model.                                                    *)
(***************************************************************************)
\* the clock runs over 0..MaxNow hours
MaxNow == 1

\* the request slots: two coroutines of one event loop
Procs == {"r1", "r2"}

(***************************************************************************)
(* Part I.  The upstream source (Congress.gov) as a fixed catalogue.       *)
(***************************************************************************)
\* None where a timestamp is expected
NoTime == 0 - 1

\* str.lower() on the bill types the catalogue uses
Lower(t) ==
    CASE t = "HR" -> "hr"
      [] t = "S" -> "s"
      [] t = "Senate" -> "senate"
      [] t = "CA" -> "ca"
      [] t = "UT" -> "ut"
      [] OTHER -> t

\* the congresses the upstream source knows
Congresses == {118, 119}

\* GET /bill/{congress}: the items of the list response, most recent first.
\* The second item of 119 has no type; hr3-119 is answered with an amendment.
UpstreamList(congress) ==
    CASE congress = 119 ->
            << [type |-> "HR", number |-> 1, congress |-> 119],
               [type |-> "", number |-> 5, congress |-> 119],
               [type |-> "HR", number |-> 3, congress |-> 119] >>
      [] congress = 118 ->
            << [type |-> "S", number |-> 2, congress |-> 118] >>
      [] OTHER -> << >>

\* GET /bill/{congress}/{type}/{number}: the "bill" object of the response
UpstreamBill(congress, type, number) ==
    [ type |-> IF type = "hr" THEN "HR" ELSE IF type = "s" THEN "S" ELSE type,
      number |-> number,
      congress |-> congress,
      amendmentNumber |-> (type = "hr" /\ number = 3),
      title |-> IF number = 1 THEN {"tax", "relief"}
                ELSE IF number = 2 THEN {"water"}
                ELSE {"tax"},
      sponsor |-> IF number = 2 THEN "B000002" ELSE "A000001",
      introducedDate |-> number ]

\* GET .../summaries: the texts of the summaries of the bill
UpstreamSummaries(congress, type, number) ==
    IF number = 2 THEN << >> ELSE << "summary" >>

\* GET .../subjects: policy area and legislative subjects
UpstreamSubjects(congress, type, number) ==
    [ policyArea |-> IF number = 2 THEN "Environment" ELSE "Taxation",
      legislativeSubjects |-> IF number = 2 THEN {"Water"} ELSE {"Income tax"} ]

\* bill_id = f"{type}{number}-{congress}"
BillId(type, number, congress) ==
    type \o ToString(number) \o "-" \o ToString(congress)

(***************************************************************************)
(* CongressClient.transform_bill.  An optional value is a sequence of      *)
(* length 0 (None, or an exception object replaced by None) or 1.          *)
(***************************************************************************)
\* mutant: transform_bill without the amendment check of lines 434-437
transform_bill_KeepAmendments(data, summaries_data, subjects_data) ==
    IF data.type = ""
    THEN << >>
    ELSE << [ oid |-> 0,
              bill_id |-> BillId(Lower(data.type), data.number, data.congress),
              congress |-> data.congress,
              type |-> Lower(data.type),
              number |-> data.number,
              title |-> data.title,
              sponsor_id |-> data.sponsor,
              introduced_date |-> data.introducedDate,
              legislative_subjects |->
                  IF subjects_data = << >> THEN {}
                  ELSE subjects_data[1].legislativeSubjects,
              summaries |->
                  IF summaries_data = << >> THEN << >> ELSE summaries_data[1],
              policy_area |->
                  IF subjects_data = << >> THEN "" ELSE subjects_data[1].policyArea,
              updated_at |-> NoTime,
              created_at |-> NoTime ] >>

\* transform_bill (congress.py:416-520)
transform_bill(data, summaries_data, subjects_data) ==
    IF data.amendmentNumber \/ data.number = 0 \/ data.type = ""
    THEN << >>
    ELSE << [ oid |-> 0,
              bill_id |-> BillId(Lower(data.type), data.number, data.congress),
              congress |-> data.congress,
              type |-> Lower(data.type),
              number |-> data.number,
              title |-> data.title,
              sponsor_id |-> data.sponsor,
              introduced_date |-> data.introducedDate,
              legislative_subjects |->
                  IF subjects_data = << >> THEN {}
                  ELSE subjects_data[1].legislativeSubjects,
              summaries |->
                  IF summaries_data = << >> THEN << >> ELSE summaries_data[1],
              \* the key policy_area exists only when subjects were fetched
              policy_area |->
                  IF subjects_data = << >> THEN "" ELSE subjects_data[1].policyArea,
              updated_at |-> NoTime,
              created_at |-> NoTime ] >>

(***************************************************************************)
(* The document store: a collection is a set of documents.  oid stands for *)
(* the store's own _id: it tells apart the documents of one bill_id, and   *)
(* is 1 for the first of them.                                             *)
(***************************************************************************)
\* collection.find_one({"bill_id": bill_id}): the documents it may return
find_one(coll, bill_id) ==
    IF \E d \in coll : d.bill_id = bill_id
    THEN { << d >> : d \in { e \in coll : e.bill_id = bill_id } }
    ELSE { << >> }

\* {"$set": fields} on a stored document: every key of fields is overwritten,
\* a key that fields does not carry (policy_area, created_at) is kept
SetFields(old, fields) ==
    [ fields EXCEPT
        !.oid = old.oid,
        !.policy_area = IF fields.policy_area = "" THEN old.policy_area ELSE @,
        !.created_at = IF fields.created_at = NoTime THEN old.created_at ELSE @ ]

\* update_one as an insert that does not look for the document of bill_id
update_one_Insert(coll, bill_id, fields) ==
    { coll \cup { [ fields EXCEPT
          !.oid = Cardinality({ e \in coll : e.bill_id = bill_id }) + 1 ] } }

\* update_one({"bill_id": bill_id}, {"$set": fields}, upsert=True): the
\* collections that may result (one matching document is updated, or a new
\* document is inserted when none matches)
update_one(coll, bill_id, fields) ==
    IF \E d \in coll : d.bill_id = bill_id
    THEN { (coll \ {d}) \cup { SetFields(d, fields) } :
              d \in { e \in coll : e.bill_id = bill_id } }
    ELSE { coll \cup { [ fields EXCEPT !.oid = 1 ] } }

(***************************************************************************)
(* BillService.search_bills: the query and the page.                       *)
(***************************************************************************)
\* str.upper() on the party codes
Upper(t) ==
    CASE t = "d" -> "D"
      [] t = "r" -> "R"
      [] t = "ut" -> "UT"
      [] t = "ca" -> "CA"
      [] OTHER -> t

\* the arguments of the searches the model issues; "" and 0 stand for None
SearchInputs ==
    { [query |-> "", party |-> "", subject |-> "", congress |-> 119, page |-> 1, page_size |-> 3],
      [query |-> "", party |-> "", subject |-> "", congress |-> 0, page |-> 1, page_size |-> 3],
      [query |-> "", party |-> "", subject |-> "", congress |-> 118, page |-> 1, page_size |-> 1],
      [query |-> "tax", party |-> "", subject |-> "", congress |-> 119, page |-> 1, page_size |-> 1],
      [query |-> "", party |-> "d", subject |-> "", congress |-> 119, page |-> 1, page_size |-> 3],
      [query |-> "", party |-> "", subject |-> "Water", congress |-> 0, page |-> 2, page_size |-> 1] }

\* mongo_query applied to one document (lines 300-321)
MatchesQuery(d, q, party_member_ids) ==
    /\ q.query # "" => q.query \in d.title
    /\ q.subject # "" => q.subject \in d.legislative_subjects
    /\ q.congress # 0 => d.congress = q.congress
    /\ q.party # "" => d.sponsor_id \in party_member_ids

\* collection.count_documents(mongo_query)
count_documents(coll, q, ids) ==
    Cardinality({ d \in coll : MatchesQuery(d, q, ids) })

\* total_pages = max(1, (total + page_size - 1) // page_size)
TotalPages(total, page_size) ==
    LET n == (total + page_size - 1) \div page_size
    IN  IF n < 1 THEN 1 ELSE n

\* the sequences over S without repetition that enumerate all of S
RECURSIVE Orders(_)
Orders(S) ==
    IF S = {} THEN { << >> }
    ELSE UNION { { << d >> \o t : t \in Orders(S \ {d}) } : d \in S }

\* find(mongo_query).sort(...).skip(skip).limit(page_size): with a keyword the
\* sort is by text score (one score for every match of the keyword), without
\* it by introduced_date descending; ties come in any order
FindPage(coll, q, ids, skip) ==
    LET M == { d \in coll : MatchesQuery(d, q, ids) }
        Sorted(o) ==
            q.query = "" =>
                \A i \in 1..(Len(o) - 1) :
                    o[i].introduced_date >= o[i + 1].introduced_date
        Page(o) ==
            [ i \in 1..(IF Len(o) - skip < 0 THEN 0
                        ELSE IF Len(o) - skip > q.page_size THEN q.page_size
                        ELSE Len(o) - skip) |-> o[skip + i].bill_id ]
    IN  { Page(o) : o \in { x \in Orders(M) : Sorted(x) } }

(***************************************************************************)
(* State.                                                                  *)
(***************************************************************************)
VARIABLES
    bills,      \* the bills collection
    members,    \* the members collection
    synced,     \* _synced_congresses (bills/services.py:15)
    passes,     \* per congress: the sync passes that reached line 257
    apiKey,     \* settings.CONGRESS_API_KEY is set
    now,        \* datetime.utcnow(), in hours
    calls,      \* per request slot: the running search_bills coroutine
    history,    \* whether a call records what the call before it did
    name_input,  \* the text handed to _build_name_search_query
    name_query,   \* what _build_name_search_query returned for it
    msearch,      \* the running search_members coroutine
    matcher,      \* a MemberMatcher: its cache and its running lookup
    votes,        \* the votes collection
    vsync,        \* the vote sync_votes is working on
    getbill,      \* the running get_bill coroutine
    request       \* an upstream GET of CongressClient._get and its retries

vars == << bills, members, synced, passes, apiKey, now, calls, history,
           name_input, name_query, msearch, matcher, votes, vsync,
           getbill, request >>

\* no get_bill call is running
IdleGet ==
    [pc |-> "idle", bill_id |-> << >>, congress |-> 0, bill_type |-> "",
     bill_number |-> 0, bill_data |-> << >>, how |-> ""]

\* no GET is under way: nothing was tried, nothing slept
\* (members/clients/congress.py:31)
IdleRequest ==
    [pc |-> "idle", attempt |-> 0, tried |-> << >>, slept |-> << >>,
     last_exception |-> << >>, raised |-> << >>]

\* the state of the vote sync (votes/)
voteVars == << matcher, votes, vsync >>

\* no lookup is running and _member_cache is empty (member_matcher.py:19)
IdleMatcher ==
    [cache |-> {}, pc |-> "idle", first_name |-> << >>,
     last_name |-> << >>, state |-> "", chamber |-> "", result |-> "",
     how |-> ""]

\* _sync_chamber_votes has not been called: synced = 0, errors = 0 and
\* offset = 0 (sync_votes.py:126-128), no batch and no vote in work
IdleVote ==
    [pc |-> "idle", chamber |-> "", limit |-> 0, synced |-> 0,
     errors |-> 0, offset |-> 0, batch |-> << >>, count |-> 0,
     roll |-> 0, todo |-> << >>, members |-> << >>]

\* the vote sync before it starts
InitVotes ==
    /\ matcher = IdleMatcher
    /\ votes = {}
    /\ vsync = IdleVote

\* the state of the member search (members/services.py)
memberVars == << name_input, name_query, msearch >>

\* the state of the bill search and sync (bills/services.py)
billVars == << bills, synced, passes, apiKey, now, calls, history, getbill >>

\* no name query has been built
NotBuilt ==
    [op |-> "none", field |-> "", pattern |-> << >>, options |-> "",
     value |-> "", args |-> << >>]

\* MemberSearchParams() with its defaults (members/models.py)
NoParams ==
    [q |-> << >>, state |-> "", party |-> "", chamber |-> "", page |-> 1,
     page_size |-> 20]

\* no search_members call is running
IdleSearch ==
    [pc |-> "idle", params |-> NoParams, query |-> NotBuilt, total |-> 0,
     skip |-> 0, total_pages |-> 0, results |-> << >>]

\* the freshness window of sync_recent_bills, timedelta(hours=1)
OneHour == 1

\* the members the party filter of search_bills joins with
SponsorMembers ==
    { [bioguide_id |-> "A000001", party |-> "D"],
      [bioguide_id |-> "B000002", party |-> "R"] }

NoInput ==
    [query |-> "", party |-> "", subject |-> "", congress |-> 0, page |-> 1, page_size |-> 1]

\* what a call records of the call before it on its slot
NoPrev == [q |-> NoInput, sync_calls |-> 0, listed |-> FALSE, marked |-> FALSE]

\* a request slot with no call in it.  pc is the await the coroutine is
\* suspended at; the fields from sync_calls on record what the call has done:
\* sync_calls  calls of sync_recent_bills that passed the check of line 199
\* listed      the upstream list request was issued (line 210)
\* marked      line 257 was executed; caught: the except branch was taken
\* sync_ret    the value sync_recent_bills returned, NoTime while it has not
\* dropped     listed records whose fetch_bill_complete gave None
\* upserted    update_one calls that the store carried out
IdleCall ==
    [ pc |-> "idle", q |-> NoInput, ids |-> {},
      total |-> 0, skip |-> 0, total_pages |-> 1, target |-> 0,
      idx |-> 0, synced_count |-> 0, pending |-> << >>, results |-> << >>,
      sync_calls |-> 0, listed |-> FALSE, marked |-> FALSE, caught |-> FALSE,
      sync_ret |-> NoTime, dropped |-> 0, upserted |-> 0,
      recounts |-> 0, finds |-> 0,
      prev |-> NoPrev ]

InitBills ==
    /\ bills = {}
    /\ synced = {}
    /\ passes = [congress \in Congresses |-> 0]
    /\ apiKey \in BOOLEAN
    /\ now = 0
    /\ calls = [p \in Procs |-> IdleCall]
    /\ name_input = << >>
    /\ name_query = NotBuilt
    /\ msearch = IdleSearch
    /\ InitVotes
    /\ getbill = IdleGet
    /\ request = IdleRequest

\* get_congress_client(): CongressClient() raises ValueError without a key
get_congress_client_ok == apiKey

\* index of the first item at or after i that has a type and a number
\* (lines 220-227), 0 when the list is exhausted
NextItem(list, i) ==
    LET ok == { k \in i..Len(list) : list[k].type # "" /\ list[k].number # 0 }
    IN  IF ok = {} THEN 0 ELSE CHOOSE k \in ok : \A j \in ok : k <= j

\* SyncReturn as a fallback loop: search_bills starts over at its first count
SyncReturn_Loop(c, ret) ==
    [c EXCEPT !.pc = "count", !.idx = 0, !.pending = << >>, !.sync_ret = ret]

\* sync_recent_bills returns ret to search_bills, which goes on at line 336
SyncReturn(c, ret) ==
    [c EXCEPT !.pc = "recount", !.idx = 0, !.pending = << >>, !.sync_ret = ret]

\* Continue marking the congress only when no record of the batch was dropped
Continue_OnlyFullSuccess(c, i) ==
    LET n == NextItem(UpstreamList(c.target), i)
    IN  IF n = 0
        THEN [SyncReturn(c, c.synced_count) EXCEPT !.marked = (c.dropped = 0)]
        ELSE [c EXCEPT !.pc = "findone", !.idx = n, !.pending = << >>]

\* the for loop of sync_recent_bills resumed at item i, up to its next await:
\* the find_one of the next usable item, or lines 256-260 after the last one
Continue(c, i) ==
    LET n == NextItem(UpstreamList(c.target), i)
    IN  IF n = 0
        THEN [SyncReturn(c, c.synced_count) EXCEPT !.marked = TRUE]
        ELSE [c EXCEPT !.pc = "findone", !.idx = n, !.pending = << >>]

\* the except branch of sync_recent_bills (lines 262-264): return 0
SyncFailed(c) == [SyncReturn(c, 0) EXCEPT !.caught = TRUE]

\* Marked without line 257
Marked_Forget(c, c2) == synced

\* _synced_congresses after the step that took the coroutine c to c2
Marked(c, c2) ==
    IF c2.marked /\ ~c.marked THEN synced \cup {c.target} ELSE synced

\* the passes that reached line 257, after that step
Passed(c, c2) ==
    IF c2.marked /\ ~c.marked
    THEN [passes EXCEPT ![c.target] = @ + 1]
    ELSE passes

(***************************************************************************)
(* BillService.search_bills, one action per await.  What runs between two  *)
(* awaits runs without interruption on the event loop, so it is one step.  *)
(***************************************************************************)
\* the call is made; lines 297-316 up to the first store await
Start(p, q) ==
    LET c == calls[p]
    IN  /\ c.pc \in {"idle", "done", "raised"}
        /\ calls' = [calls EXCEPT ![p] =
              [IdleCall EXCEPT
                  !.pc = IF q.party # "" THEN "members" ELSE "count",
                  !.q = q,
                  !.prev = IF history
                           THEN [q |-> c.q, sync_calls |-> c.sync_calls,
                                 listed |-> c.listed, marked |-> c.marked]
                           ELSE NoPrev]]
        /\ UNCHANGED << bills, members, synced, passes, apiKey, now, history >>
        /\ UNCHANGED << memberVars, request >>
        /\ UNCHANGED << voteVars, getbill >>

\* lines 317-321: the bioguide ids of the members of the party
PartyMembers(p) ==
    LET c == calls[p]
    IN  /\ c.pc = "members"
        /\ calls' = [calls EXCEPT ![p] =
              [c EXCEPT
                  !.pc = "count",
                  !.ids = { m.bioguide_id :
                              m \in { x \in members : x.party = Upper(c.q.party) } }]]
        /\ UNCHANGED << bills, members, synced, passes, apiKey, now, history >>
        /\ UNCHANGED << memberVars, request >>
        /\ UNCHANGED << voteVars, getbill >>

\* mutant: the search syncs whenever its count is short, marked or not
Count_IgnoreMarked(p) ==
    LET c == calls[p]
        total == count_documents(bills, c.q, c.ids)
        target == IF c.q.congress # 0 THEN c.q.congress ELSE 119
        c1 == [c EXCEPT
                  !.total = total,
                  !.skip = (c.q.page - 1) * c.q.page_size,
                  !.total_pages = TotalPages(total, c.q.page_size),
                  !.target = target]
    IN  /\ c.pc = "count"
        /\ calls' = [calls EXCEPT ![p] =
              IF total < c.q.page_size
              THEN IF get_congress_client_ok
                   THEN [c1 EXCEPT !.pc = "list", !.sync_calls = @ + 1]
                   ELSE [c1 EXCEPT !.pc = "raised", !.sync_calls = @ + 1]
              ELSE [c1 EXCEPT !.pc = "find"]]
        /\ UNCHANGED << bills, members, synced, passes, apiKey, now, history >>
        /\ UNCHANGED << memberVars, request >>
        /\ UNCHANGED << voteVars, getbill >>

\* lines 324-334 and, inside sync_recent_bills, 196-210: the first count,
\* the decision to sync, the already-synced check and the client factory
Count(p) ==
    LET c == calls[p]
        total == count_documents(bills, c.q, c.ids)
        target == IF c.q.congress # 0 THEN c.q.congress ELSE 119
        c1 == [c EXCEPT
                  !.total = total,
                  !.skip = (c.q.page - 1) * c.q.page_size,
                  !.total_pages = TotalPages(total, c.q.page_size),
                  !.target = target]
    IN  /\ c.pc = "count"
        /\ calls' = [calls EXCEPT ![p] =
              IF total < c.q.page_size /\ target \notin synced
              THEN IF get_congress_client_ok
                   THEN [c1 EXCEPT !.pc = "list", !.sync_calls = @ + 1]
                   ELSE [c1 EXCEPT !.pc = "raised", !.sync_calls = @ + 1]
              ELSE [c1 EXCEPT !.pc = "find"]]
        /\ UNCHANGED << bills, members, synced, passes, apiKey, now, history >>
        /\ UNCHANGED << memberVars, request >>
        /\ UNCHANGED << voteVars, getbill >>

\* line 210: client.search_bills answers with the list, or raises once the
\* client's retries are exhausted
ListFetch(p) ==
    LET c == [calls[p] EXCEPT !.listed = TRUE]
    IN  /\ calls[p].pc = "list"
        /\ \E ok \in BOOLEAN :
              LET c2 == IF ok THEN Continue(c, 1) ELSE SyncFailed(c)
              IN  /\ calls' = [calls EXCEPT ![p] = c2]
                  /\ synced' = Marked(c, c2)
                  /\ passes' = Passed(c, c2)
        /\ UNCHANGED << bills, members, apiKey, now, history >>
        /\ UNCHANGED << memberVars, request >>
        /\ UNCHANGED << voteVars, getbill >>

\* the list item the loop is at
Item(c) == UpstreamList(c.target)[c.idx]

\* mutant: no stored document counts as recently updated
Fresh_Never(existing) == FALSE

\* updated_at and utcnow() - updated_at < timedelta(hours=1)
Fresh(existing) ==
    /\ existing # << >>
    /\ existing[1].updated_at # NoTime
    /\ now - existing[1].updated_at < OneHour

\* lines 230-242: find_one answers (or raises); a fresh document is skipped,
\* otherwise fetch_bill_complete issues its three requests
FindOne(p) ==
    LET c == calls[p]
        id == BillId(Lower(Item(c).type), Item(c).number, Item(c).congress)
    IN  /\ c.pc = "findone"
        /\ \/ \E existing \in find_one(bills, id) :
                 LET c2 == IF Fresh(existing)
                           THEN Continue(c, c.idx + 1)
                           ELSE [c EXCEPT !.pc = "detail"]
                 IN  /\ calls' = [calls EXCEPT ![p] = c2]
                     /\ synced' = Marked(c, c2)
                     /\ passes' = Passed(c, c2)
           \/ /\ calls' = [calls EXCEPT ![p] = SyncFailed(c)]
              /\ UNCHANGED << synced, passes >>
        /\ UNCHANGED << bills, members, apiKey, now, history >>
        /\ UNCHANGED << memberVars, request >>
        /\ UNCHANGED << voteVars, getbill >>

\* mutant: a failed summaries or subjects request loses the whole bill
fetch_bill_complete_AllOrNothing(congress, type, number, okBill, okSummaries, okSubjects) ==
    IF ~okBill \/ ~okSummaries \/ ~okSubjects THEN << >>
    ELSE LET bill == transform_bill(
                        UpstreamBill(congress, type, number),
                        << UpstreamSummaries(congress, type, number) >>,
                        << UpstreamSubjects(congress, type, number) >>)
         IN  IF bill = << >> THEN << >>
             ELSE << [bill[1] EXCEPT !.updated_at = now, !.created_at = now] >>

\* fetch_bill_complete (lines 137-179) once asyncio.gather has the three
\* answers; each of them is a response or an exception
fetch_bill_complete(congress, type, number, okBill, okSummaries, okSubjects) ==
    IF ~okBill THEN << >>
    ELSE LET bill == transform_bill(
                        UpstreamBill(congress, type, number),
                        IF okSummaries
                        THEN << UpstreamSummaries(congress, type, number) >>
                        ELSE << >>,
                        IF okSubjects
                        THEN << UpstreamSubjects(congress, type, number) >>
                        ELSE << >>)
         IN  IF bill = << >> THEN << >>
             ELSE << [bill[1] EXCEPT !.updated_at = now, !.created_at = now] >>

\* lines 242-246: the complete bill is there, or None
Detail(p) ==
    LET c == calls[p]
    IN  /\ c.pc = "detail"
        /\ \E okBill, okSummaries, okSubjects \in BOOLEAN :
              LET bill == fetch_bill_complete(Item(c).congress, Lower(Item(c).type),
                                              Item(c).number,
                                              okBill, okSummaries, okSubjects)
                  c2 == IF bill = << >>
                        THEN Continue([c EXCEPT !.dropped = @ + 1], c.idx + 1)
                        ELSE [c EXCEPT !.pc = "upsert", !.pending = bill]
              IN  /\ calls' = [calls EXCEPT ![p] = c2]
                  /\ synced' = Marked(c, c2)
                  /\ passes' = Passed(c, c2)
        /\ UNCHANGED << bills, members, apiKey, now, history >>
        /\ UNCHANGED << memberVars, request >>
        /\ UNCHANGED << voteVars, getbill >>

\* lines 248-254: update_one answers (or raises)
Upsert(p) ==
    LET c == calls[p]
        id == BillId(Lower(Item(c).type), Item(c).number, Item(c).congress)
    IN  /\ c.pc = "upsert"
        /\ \/ \E coll \in update_one(bills, id, c.pending[1]) :
                 LET c2 == Continue([c EXCEPT !.synced_count = @ + 1,
                                              !.upserted = @ + 1], c.idx + 1)
                 IN  /\ bills' = coll
                     /\ calls' = [calls EXCEPT ![p] = c2]
                     /\ synced' = Marked(c, c2)
                     /\ passes' = Passed(c, c2)
           \/ /\ calls' = [calls EXCEPT ![p] = SyncFailed(c)]
              /\ UNCHANGED << bills, synced, passes >>
        /\ UNCHANGED << members, apiKey, now, history >>
        /\ UNCHANGED << memberVars, request >>
        /\ UNCHANGED << voteVars, getbill >>

\* lines 336-338: the count after the sync
Recount(p) ==
    LET c == calls[p]
        total == count_documents(bills, c.q, c.ids)
    IN  /\ c.pc = "recount"
        /\ calls' = [calls EXCEPT ![p] =
              [c EXCEPT !.pc = "find",
                        !.total = total,
                        !.total_pages = TotalPages(total, c.q.page_size),
                        !.recounts = @ + 1]]
        /\ UNCHANGED << bills, members, synced, passes, apiKey, now, history >>
        /\ UNCHANGED << memberVars, request >>
        /\ UNCHANGED << voteVars, getbill >>

\* lines 340-371: the page is read and the envelope returned
Find(p) ==
    LET c == calls[p]
    IN  /\ c.pc = "find"
        /\ \E page \in FindPage(bills, c.q, c.ids, c.skip) :
              calls' = [calls EXCEPT ![p] =
                  [c EXCEPT !.pc = "done", !.results = page, !.finds = @ + 1]]
        /\ UNCHANGED << bills, members, synced, passes, apiKey, now, history >>
        /\ UNCHANGED << memberVars, request >>
        /\ UNCHANGED << voteVars, getbill >>

\* an hour passes
Tick ==
    /\ now < MaxNow
    /\ now' = now + 1
    /\ UNCHANGED << bills, members, synced, passes, apiKey, calls, history >>
    /\ UNCHANGED << memberVars, request >>
    /\ UNCHANGED << voteVars, getbill >>

\* One request after the other on one slot, with the clock running.
Init ==
    /\ InitBills
    /\ members = SponsorMembers
    /\ history = TRUE

Next ==
    \/ \E q \in SearchInputs : Start("r1", q)
    \/ PartyMembers("r1")
    \/ Count("r1")
    \/ ListFetch("r1")
    \/ FindOne("r1")
    \/ Detail("r1")
    \/ Upsert("r1")
    \/ Recount("r1")
    \/ Find("r1")
    \/ Tick

Spec == Init /\ [][Next]_vars

\* Two requests interleaving at their awaits.
InitConc ==
    /\ InitBills
    /\ members = SponsorMembers
    /\ history = FALSE

\* the searches of the two requests: congress 119, asked for or by default
ConcInputs == { q \in SearchInputs : q.page_size = 3 }

NextConc ==
    \/ \E p \in Procs, q \in ConcInputs : Start(p, q)
    \/ \E p \in Procs : PartyMembers(p)
    \/ \E p \in Procs : Count(p)
    \/ \E p \in Procs : ListFetch(p)
    \/ \E p \in Procs : FindOne(p)
    \/ \E p \in Procs : Detail(p)
    \/ \E p \in Procs : Upsert(p)
    \/ \E p \in Procs : Recount(p)
    \/ \E p \in Procs : Find(p)

SpecConc == InitConc /\ [][NextConc]_vars

C3_SyncNeverRaises ==
    \A p \in Procs :
        /\ calls[p].pc # "raised"
        /\ calls[p].sync_ret # NoTime => calls[p].sync_ret = calls[p].upserted

\* C4: a call that synced and returned has called sync_recent_bills once,
\* counted once more and read its page once, and its envelope is what the
\* collection holds for the query, also below the page size.
C4_RequeryOnce ==
    LET c == calls["r1"]
    IN  /\ c.sync_calls <= 1 /\ c.recounts <= 1 /\ c.finds <= 1
        /\ (c.pc = "done" /\ c.sync_calls > 0) =>
              /\ c.recounts = 1 /\ c.finds = 1
              /\ c.total = count_documents(bills, c.q, c.ids)
              /\ c.results \in FindPage(bills, c.q, c.ids, c.skip)

\* a call returned after its sync with fewer results than a page
C4_Witness ==
    LET c == calls["r1"]
    IN  /\ c.pc = "done" /\ c.sync_calls = 1 /\ c.sync_ret = 1
        /\ c.total = 1 /\ c.q.page_size = 3
        /\ Len(c.results) = 1

(***************************************************************************)
(* Properties of two interleaved searches (SpecConc).                      *)
(***************************************************************************)
\* a document without its timestamps
Strip(d) == [d EXCEPT !.updated_at = NoTime, !.created_at = NoTime]

\* the records of the upstream lists that have a type and a number
UsableItems ==
    { it \in UNION { { UpstreamList(g)[i] : i \in DOMAIN UpstreamList(g) } :
                     g \in Congresses } :
        it.type # "" /\ it.number # 0 }

\* what fetch_bill_complete may give for a record, the three answers varying
Fetched(it) ==
    { b \in { fetch_bill_complete(it.congress, Lower(it.type), it.number,
                                  okBill, okSummaries, okSubjects) :
              okBill, okSummaries, okSubjects \in BOOLEAN } : b # << >> }

\* the documents one pass writes into an empty collection
SinglePassDocs ==
    { Strip([b[1] EXCEPT !.oid = 1]) : b \in UNION { Fetched(it) : it \in UsableItems } }

\* at most one document per bill_id
UniqueBillIds ==
    \A d, e \in bills : d.bill_id = e.bill_id => d = e

\* both requests have returned, each after a sync of the same congress
BothSynced ==
    /\ \A p \in Procs : calls[p].pc = "done" /\ calls[p].sync_calls > 0
    /\ calls["r1"].target = calls["r2"].target

LowerLetters ==
    << "a", "b", "c", "d", "e", "f", "g", "h", "i", "j", "k", "l", "m",
       "n", "o", "p", "q", "r", "s", "t", "u", "v", "w", "x", "y", "z" >>

UpperLetters ==
    << "A", "B", "C", "D", "E", "F", "G", "H", "I", "J", "K", "L", "M",
       "N", "O", "P", "Q", "R", "S", "T", "U", "V", "W", "X", "Y", "Z" >>

Range(s) == { s[i] : i \in DOMAIN s }

\* the characters str.strip(), str.split() and \s take for white space
Whitespace == { " ", "\t", "\n" }

\* the characters \w takes: letters, digits and the underscore
WordChars ==
    Range(LowerLetters) \cup Range(UpperLetters)
        \cup { "0", "1", "2", "3", "4", "5", "6", "7", "8", "9", "_" }

\* the comparison "$options": "i" makes: letters compare by their lower case
Fold(c) ==
    IF \E i \in 1..26 : UpperLetters[i] = c
    THEN LowerLetters[CHOOSE i \in 1..26 : UpperLetters[i] = c]
    ELSE c

RECURSIVE lstrip(_)
lstrip(text) ==
    IF text # << >> /\ Head(text) \in Whitespace
    THEN lstrip(Tail(text))
    ELSE text

RECURSIVE rstrip(_)
rstrip(text) ==
    IF text # << >> /\ text[Len(text)] \in Whitespace
    THEN rstrip(SubSeq(text, 1, Len(text) - 1))
    ELSE text

\* str.strip()
strip(text) == rstrip(lstrip(text))

\* re.sub(r'\s+', ' ', text)
RECURSIVE CollapseWhitespace(_)
CollapseWhitespace(text) ==
    IF text = << >> THEN << >>
    ELSE IF Head(text) \in Whitespace
         THEN << " " >> \o CollapseWhitespace(lstrip(Tail(text)))
         ELSE << Head(text) >> \o CollapseWhitespace(Tail(text))

\* the first run of characters of text that are not white space
RECURSIVE FirstWord(_)
FirstWord(text) ==
    IF text = << >> \/ Head(text) \in Whitespace
    THEN << >>
    ELSE << Head(text) >> \o FirstWord(Tail(text))

\* str.split(): the runs of characters between white space
RECURSIVE split(_)
split(text) ==
    LET rest == lstrip(text)
        word == FirstWord(rest)
    IN  IF rest = << >> THEN << >>
        ELSE << word >> \o split(SubSeq(rest, Len(word) + 1, Len(rest)))

\* str.replace(char, "\\" + char)
RECURSIVE replace(_, _)
replace(text, char) ==
    IF text = << >> THEN << >>
    ELSE (IF Head(text) = char THEN << "\\", char >> ELSE << Head(text) >>)
             \o replace(Tail(text), char)

\* r'\.^$*+?{}[]()|\\': the raw string holds the backslash first and, at
\* its end, twice more
special_chars ==
    << "\\", ".", "^", "$", "*", "+", "?", "{", "}", "[", "]", "(", ")",
       "|", "\\", "\\" >>

\* the for loop of _escape_regex_special_chars, from its i-th character on
RECURSIVE EscapeFrom(_, _)
EscapeFrom(escaped, i) ==
    IF i > Len(special_chars) THEN escaped
    ELSE EscapeFrom(replace(escaped, special_chars[i]), i + 1)

_escape_regex_special_chars(text) == EscapeFrom(text, 1)

_normalize_search_term(search_term) == CollapseWhitespace(strip(search_term))

(***************************************************************************)
(* The store's regular expressions ("$regex"), as far as the patterns of   *)
(* the code use them: literals, \b, an escaped character, ".", "*", "^",   *)
(* "$", "|" and groups.  A match is computed on offsets: offset i lies     *)
(* between text[i] and text[i + 1].                                        *)
(* m = [p |-> pattern, t |-> text, o |-> options]                          *)
(***************************************************************************)
IsWord(text, i) == i >= 1 /\ i <= Len(text) /\ text[i] \in WordChars

\* \b holds at offset i
Boundary(text, i) == IsWord(text, i) # IsWord(text, i + 1)

\* the pattern's character a stands for the text's character b
SameChar(a, b, options) ==
    IF options = "i" THEN Fold(a) = Fold(b) ELSE a = b

\* the offsets after one character read from an offset of S: any character
\* but the newline for ".", else the character c
Advance(m, S, c, any) ==
    { i + 1 : i \in { j \in S :
                         /\ j < Len(m.t)
                         /\ IF any THEN m.t[j + 1] # "\n"
                            ELSE SameChar(c, m.t[j + 1], m.o) } }

\* the element of a one-element set: The({ e : x \in { v } }) is e with x
\* standing for the value of v, computed once
The(s) == CHOOSE x \in s : TRUE

RECURSIVE Alternation(_, _, _)
RECURSIVE Branch(_, _, _)
RECURSIVE Piece(_, _, _)
RECURSIVE Closure(_, _, _)
RECURSIVE Atom(_, _, _)

\* one atom at index k of the pattern: [k |-> the index after it,
\* S |-> the offsets it can end at, ok |-> it is well formed]
Atom(m, k, S) ==
    The({ IF c = "\\"
          THEN IF k = Len(m.p)
               THEN [k |-> k + 1, S |-> {}, ok |-> FALSE]
               ELSE IF m.p[k + 1] = "b"
                    THEN [k |-> k + 2,
                          S |-> { i \in S : Boundary(m.t, i) },
                          ok |-> TRUE]
                    ELSE [k |-> k + 2,
                          S |-> Advance(m, S, m.p[k + 1], FALSE),
                          ok |-> TRUE]
          ELSE IF c = "."
          THEN [k |-> k + 1, S |-> Advance(m, S, c, TRUE), ok |-> TRUE]
          ELSE IF c = "^"
          THEN [k |-> k + 1, S |-> S \cap { 0 }, ok |-> TRUE]
          ELSE IF c = "$"
          THEN [k |-> k + 1,
                S |-> { i \in S : \/ i = Len(m.t)
                                  \/ /\ i = Len(m.t) - 1
                                     /\ m.t[Len(m.t)] = "\n" },
                ok |-> TRUE]
          ELSE IF c = "("
          THEN The({ IF r.k <= Len(m.p) /\ m.p[r.k] = ")"
                     THEN [r EXCEPT !.k = @ + 1]
                     ELSE [k |-> Len(m.p) + 1, S |-> {}, ok |-> FALSE] :
                     r \in { Alternation(m, k + 1, S) } })
          ELSE IF c = "*"
          THEN [k |-> Len(m.p) + 1, S |-> {}, ok |-> FALSE]
          ELSE [k |-> k + 1, S |-> Advance(m, S, c, FALSE), ok |-> TRUE] :
          c \in { m.p[k] } })

\* the offsets reached by repeating the atom at k any number of times
Closure(m, k, S) ==
    The({ IF T = S THEN S ELSE Closure(m, k, T) :
          T \in { S \cup Atom(m, k, S).S } })

\* an atom and the "*" that may follow it
Piece(m, k, S) ==
    The({ IF a.ok /\ a.k <= Len(m.p) /\ m.p[a.k] = "*"
          THEN [k |-> a.k + 1, S |-> Closure(m, k, S), ok |-> TRUE]
          ELSE a :
          a \in { Atom(m, k, S) } })

\* the pieces up to the next "|", ")" or the end of the pattern
Branch(m, k, S) ==
    IF k > Len(m.p) \/ m.p[k] \in { "|", ")" }
    THEN [k |-> k, S |-> S, ok |-> TRUE]
    ELSE The({ IF a.ok THEN Branch(m, a.k, a.S) ELSE a :
               a \in { Piece(m, k, S) } })

\* branch | branch | ...
Alternation(m, k, S) ==
    The({ IF a.ok /\ a.k <= Len(m.p) /\ m.p[a.k] = "|"
          THEN The({ [k |-> r.k, S |-> a.S \cup r.S, ok |-> r.ok] :
                     r \in { Alternation(m, a.k + 1, S) } })
          ELSE a :
          a \in { Branch(m, k, S) } })

\* the whole pattern, tried from every offset of the text
Compiled(pattern, text, options) ==
    The({ Alternation(m, 1, 0..Len(text)) :
          m \in { [p |-> pattern, t |-> text, o |-> options] } })

\* the store accepts the pattern
ValidRegex(pattern) ==
    \E r \in { Compiled(pattern, << >>, "") } :
        r.ok /\ r.k = Len(pattern) + 1

\* {"$regex": pattern, "$options": options} holds of text
RegexSearch(pattern, text, options) ==
    \E r \in { Compiled(pattern, text, options) } :
        r.ok /\ r.k = Len(pattern) + 1 /\ r.S # {}

(***************************************************************************)
(* Store predicates.  A dict of the code is a node: {} is Fields(<< >>).   *)
(***************************************************************************)
\* {field: {"$regex": pattern, "$options": "i"}}
Regex(field, pattern) ==
    [op |-> "regex", field |-> field, pattern |-> pattern, options |-> "i",
     value |-> "", args |-> << >>]

\* {field: value}
Eq(field, value) ==
    [op |-> "eq", field |-> field, pattern |-> << >>, options |-> "",
     value |-> value, args |-> << >>]

\* a dict of field conditions, all of which must hold
Fields(args) ==
    [op |-> "fields", field |-> "", pattern |-> << >>, options |-> "",
     value |-> "", args |-> args]

\* {"$and": args}
And(args) ==
    [op |-> "and", field |-> "", pattern |-> << >>, options |-> "",
     value |-> "", args |-> args]

\* {"$or": args}
Or(args) ==
    [op |-> "or", field |-> "", pattern |-> << >>, options |-> "",
     value |-> "", args |-> args]

\* {}: the empty predicate
NoFilter == Fields(<< >>)

\* the store rejects the predicate: one of its patterns does not compile
RECURSIVE Malformed(_)
Malformed(query) ==
    IF query.op = "regex" THEN ~ValidRegex(query.pattern)
    ELSE \E i \in DOMAIN query.args : Malformed(query.args[i])

\* the predicate holds of the document
RECURSIVE Matches(_, _)
Matches(query, doc) ==
    CASE query.op = "regex" ->
             RegexSearch(query.pattern, doc[query.field], query.options)
      [] query.op = "eq" -> doc[query.field] = query.value
      [] query.op = "or" ->
             \E i \in DOMAIN query.args : Matches(query.args[i], doc)
      [] OTHER -> \A i \in DOMAIN query.args : Matches(query.args[i], doc)

(***************************************************************************)
(* The query builders of members/services.py.                              *)
(***************************************************************************)
\* "\\b"
WordBoundary == << "\\", "b" >>

\* ".*"
AnyRun == << ".", "*" >>

_build_single_word_query_Unanchored(word) ==
    Or(<< Regex("first_name", word), Regex("last_name", word),
          Regex("name", word) >>)

_build_single_word_query(word) ==
    LET pattern == WordBoundary \o word
    IN  Or(<< Regex("first_name", pattern),
              Regex("last_name", pattern),
              Regex("name", pattern) >>)

_build_two_word_query_ForwardOnly(first_word, second_word) ==
    LET first_pattern == WordBoundary \o first_word
        second_pattern == WordBoundary \o second_word
    IN  Or(<< And(<< Regex("first_name", first_pattern),
                     Regex("last_name", second_pattern) >>),
              Regex("name", first_pattern \o AnyRun \o second_pattern) >>)

_build_two_word_query(first_word, second_word) ==
    LET first_pattern == WordBoundary \o first_word
        second_pattern == WordBoundary \o second_word
    IN  Or(<< And(<< Regex("first_name", first_pattern),
                     Regex("last_name", second_pattern) >>),
              And(<< Regex("first_name", second_pattern),
                     Regex("last_name", first_pattern) >>),
              Regex("name",
                    first_pattern \o AnyRun \o second_pattern \o << "|" >>
                        \o second_pattern \o AnyRun \o first_pattern) >>)

\* ".*".join(f"\\b{word}" for word in words)
RECURSIVE JoinWords(_)
JoinWords(words) ==
    IF Len(words) = 1 THEN WordBoundary \o words[1]
    ELSE WordBoundary \o words[1] \o AnyRun \o JoinWords(Tail(words))

_build_multi_word_query(words) ==
    LET full_pattern == JoinWords(words)
        first_pattern == WordBoundary \o words[1]
        last_pattern == WordBoundary \o words[Len(words)]
        first_two_pattern ==
            WordBoundary \o words[1] \o AnyRun \o WordBoundary \o words[2]
        last_two_pattern ==
            WordBoundary \o words[2] \o AnyRun \o WordBoundary \o words[3]
        patterns ==
            << Regex("name", full_pattern),
               And(<< Regex("first_name", first_pattern),
                      Regex("last_name", last_pattern) >>),
               And(<< Regex("first_name", last_pattern),
                      Regex("last_name", first_pattern) >>) >>
    IN  IF Len(words) = 3
        THEN Or(patterns \o
                << And(<< Regex("first_name", first_two_pattern),
                          Regex("last_name", last_pattern) >>),
                   And(<< Regex("first_name", first_pattern),
                          Regex("last_name", last_two_pattern) >>) >>)
        ELSE Or(patterns)

\* the routing of _build_name_search_query on the number of words
RouteWords(escaped_parts) ==
    IF Len(escaped_parts) = 1
    THEN _build_single_word_query(escaped_parts[1])
    ELSE IF Len(escaped_parts) = 2
         THEN _build_two_word_query(escaped_parts[1], escaped_parts[2])
         ELSE _build_multi_word_query(escaped_parts)

\* [_escape_regex_special_chars(part) for part in parts]
EscapedParts(normalized) ==
    LET parts == split(normalized)
    IN  [i \in DOMAIN parts |-> _escape_regex_special_chars(parts[i])]

\* text cut at every single white-space character, empty pieces kept
RECURSIVE SplitOnEach(_)
SplitOnEach(text) ==
    LET word == FirstWord(text)
    IN  IF Len(word) = Len(text) THEN << word >>
        ELSE << word >> \o SplitOnEach(SubSeq(text, Len(word) + 2, Len(text)))

_build_name_search_query_Raw(search_term) ==
    LET parts == SplitOnEach(search_term)
    IN  RouteWords([i \in DOMAIN parts |->
                       _escape_regex_special_chars(parts[i])])

_build_name_search_query_NoEmptyCheck(search_term) ==
    LET normalized == _normalize_search_term(search_term)
    IN  IF normalized = << >> THEN _build_single_word_query(<< >>)
        ELSE RouteWords(EscapedParts(normalized))

_build_name_search_query(search_term) ==
    LET normalized == _normalize_search_term(search_term)
    IN  IF normalized = << >> THEN NoFilter
        ELSE RouteWords(EscapedParts(normalized))

(***************************************************************************)
(* The members collection of the name-search checks, and the search texts. *)
(***************************************************************************)
\* the longest search text of SomeTexts
MaxLen == 3

MemberSeed ==
    { [bioguide_id |-> "L000577",
       first_name |-> << "M", "i", "k", "e" >>,
       last_name |-> << "L", "e", "e" >>,
       name |-> << "M", "i", "k", "e", " ", "L", "e", "e" >>,
       party |-> "R", state |-> "UT", chamber |-> "senate"],
      [bioguide_id |-> "B001267",
       first_name |-> << "M", "i", "c", "h", "a", "e", "l" >>,
       last_name |-> << "B", "e", "n", "n", "e", "t" >>,
       name |-> << "B", "e", "n", "n", "e", "t", ",", " ", "M", "i", "c", "h", "a", "e", "l" >>,
       party |-> "D", state |-> "CO", chamber |-> "senate"],
      [bioguide_id |-> "D000001",
       first_name |-> << "D", "o", "m", "i", "n", "i", "c" >>,
       last_name |-> << "L", "e", "e" >>,
       name |-> << "D", "o", "m", "i", "n", "i", "c", " ", "L", "e", "e" >>,
       party |-> "R", state |-> "UT", chamber |-> "house"],
      [bioguide_id |-> "S000001",
       first_name |-> << "A", "d", "a", "m" >>,
       last_name |-> << "S", "m", "i", "t", "h", " ", "(", "J", "r", ".", ")" >>,
       name |-> << "A", "d", "a", "m", " ", "S", "m", "i", "t", "h", " ", "(", "J", "r", ".", ")" >>,
       party |-> "D", state |-> "CA", chamber |-> "house"],
      [bioguide_id |-> "S000002",
       first_name |-> << "J", "r" >>,
       last_name |-> << "S", "m", "i", "t", "h", "x" >>,
       name |-> << "J", "r", " ", "S", "m", "i", "t", "h", "x" >>,
       party |-> "R", state |-> "CA", chamber |-> "house"],
      [bioguide_id |-> "O000001",
       first_name |-> << "M", "a", "r", "y", "-", "K", "a", "t", "e" >>,
       last_name |-> << "O", "'", "B", "r", "i", "e", "n" >>,
       name |-> << "M", "a", "r", "y", "-", "K", "a", "t", "e", " ", "O", "'", "B", "r", "i", "e", "n" >>,
       party |-> "D", state |-> "CA", chamber |-> "senate"],
      [bioguide_id |-> "X000001",
       first_name |-> << "a" >>,
       last_name |-> << "b" >>,
       name |-> << "a", " ", "b" >>,
       party |-> "R", state |-> "UT", chamber |-> "house"],
      [bioguide_id |-> "X000002",
       first_name |-> << "a", "b" >>,
       last_name |-> << "b", "a" >>,
       name |-> << "a", "b", " ", "b", "a" >>,
       party |-> "D", state |-> "UT", chamber |-> "senate"],
      [bioguide_id |-> "X000003",
       first_name |-> << "A" >>,
       last_name |-> << "a", "-", "b" >>,
       name |-> << "A", " ", "a", "-", "b" >>,
       party |-> "I", state |-> "CO", chamber |-> "house"],
      [bioguide_id |-> "X000004",
       first_name |-> << "a", ".", "b" >>,
       last_name |-> << "a" >>,
       name |-> << "a", ".", "b", " ", "a" >>,
       party |-> "R", state |-> "CO", chamber |-> "house"],
      [bioguide_id |-> "X000005",
       first_name |-> << "a", " ", "b" >>,
       last_name |-> << "B" >>,
       name |-> << "a", " ", "b", " ", "B" >>,
       party |-> "D", state |-> "UT", chamber |-> "house"],
      [bioguide_id |-> "X000006",
       first_name |-> << "a", "(", "b" >>,
       last_name |-> << "a", "|", "b" >>,
       name |-> << "a", "(", "b", " ", "a", "|", "b" >>,
       party |-> "R", state |-> "CA", chamber |-> "senate"],
      [bioguide_id |-> "X000007",
       first_name |-> << "a" >>,
       last_name |-> << "b" >>,
       name |-> << "a", " ", "b" >>,
       party |-> "D", state |-> "CO", chamber |-> "senate"] }

\* the characters of the short search texts: letters in both cases, white
\* space, a hyphen and three of special_chars
TermChars == { "a", "b", "A", " ", "\t", "-", ".", "(", "|" }

RECURSIVE TextsOfLen(_)
TextsOfLen(n) ==
    IF n = 0 THEN { << >> }
    ELSE { << c >> \o t : c \in TermChars, t \in TextsOfLen(n - 1) }

\* every text of at most MaxLen characters of TermChars
SomeTexts == UNION { TextsOfLen(n) : n \in 0..MaxLen }

\* the searches of the docstrings and tests of members/services.py
NamedTerms ==
    { << "M", "i", "k", "e" >>,
      << "M", "i", "c" >>,
      << "K", "a", "t", "e" >>,
      << "M", "i", "k", "e", " ", "L", "e", "e" >>,
      << "L", "e", "e", " ", "M", "i", "k", "e" >>,
      << " ", " ", "M", "i", "k", "e", " ", " ", " ", "L", "e", "e", " ", " " >>,
      << "S", "m", "i", "t", "h", " ", "(", "J", "r", ".", ")" >>,
      << "O", "'", "B", "r", "i", "e", "n" >>,
      << "M", "a", "r", "y", "-", "K", "a", "t", "e" >>,
      << "L", "e", "e", "|", "x" >>,
      << "\t", "\n" >>,
      << "J", "o", "h", "n", " ", "Q", ".", " ", "P", "u", "b", "l", "i", "c" >> }

SearchTerms == SomeTexts \cup NamedTerms

\* the fields the name predicates inspect
NameFields == { "first_name", "last_name", "name" }

(***************************************************************************)
(* _build_name_search_query applied to a search text.                      *)
(***************************************************************************)
InitName ==
    /\ bills = {}
    /\ synced = {}
    /\ passes = [congress \in Congresses |-> 0]
    /\ apiKey = TRUE
    /\ now = 0
    /\ calls = [p \in Procs |-> IdleCall]
    /\ history = FALSE
    /\ members = MemberSeed
    /\ name_input \in SearchTerms
    /\ name_query = NotBuilt
    /\ msearch = IdleSearch
    /\ InitVotes
    /\ getbill = IdleGet
    /\ request = IdleRequest

BuildNameQuery ==
    /\ name_query = NotBuilt
    /\ name_query' = _build_name_search_query(name_input)
    /\ UNCHANGED << name_input, msearch, members, request >>
    /\ UNCHANGED billVars
    /\ UNCHANGED voteVars

NextName == BuildNameQuery

SpecName == InitName /\ [][NextName]_vars

(***************************************************************************)
(* What the name predicates are said to do, stated without the regular     *)
(* expressions.                                                            *)
(***************************************************************************)
\* the words of a search text
Tokens(text) == split(_normalize_search_term(text))

\* the text holds one of special_chars
HasSpecial(text) == \E i \in DOMAIN text : text[i] \in Range(special_chars)

\* _build_name_search_query has been applied
Built == name_query # NotBuilt

\* the store evaluates the predicate and it holds of the document
Selects(query, doc) == ~Malformed(query) /\ Matches(query, doc)

\* word stands in text from offset i on, letters compared without case
OccursAt(word, text, i) ==
    /\ i + Len(word) <= Len(text)
    /\ \A j \in 1..Len(word) : Fold(text[i + j]) = Fold(word[j])

Occurs(word, text) == \E i \in 0..Len(text) : OccursAt(word, text, i)

\* word begins one of the white-space-delimited words of text
PrefixOfWord(word, text) ==
    \E i \in DOMAIN split(text) : OccursAt(word, split(text)[i], 0)

\* word stands in text at a word boundary (\b)
AtWordBoundary(word, text) ==
    \E i \in 0..Len(text) : Boundary(text, i) /\ OccursAt(word, text, i)

\* word stands in text somewhere other than inside a run of word characters
AtWordStart(word, text) ==
    \E i \in 0..Len(text) :
        /\ OccursAt(word, text, i)
        /\ ~(IsWord(text, i) /\ IsWord(text, i + 1))

\* C6: for every search text holding a regex metacharacter the predicate
\* built from it can be evaluated and takes each such character as a
\* literal: a record one of whose name fields is the text itself is
\* matched, and a matched record holds every word of the text literally.
C6_MetacharactersLiteral ==
    (Built /\ HasSpecial(name_input)) =>
        /\ ~Malformed(name_query)
        /\ \A d \in members :
              /\ (\E f \in NameFields :
                      d[f] = _normalize_search_term(name_input))
                     => Matches(name_query, d)
              /\ Matches(name_query, d) =>
                     \A i \in DOMAIN Tokens(name_input) :
                         \E f \in NameFields :
                             Occurs(Tokens(name_input)[i], d[f])

\* C7 as stated: for a search text of one word w, a record is matched if
\* and only if w begins, letters compared without case, a
\* white-space-delimited word of its first name, last name or full name.
C7_PrefixOfWhitespaceWord ==
    (Built /\ Len(Tokens(name_input)) = 1) =>
        \A d \in members :
            Selects(name_query, d) <=>
                \E f \in NameFields :
                    PrefixOfWord(Tokens(name_input)[1], d[f])

\* C7: for a search text of one word w free of regex metacharacters, the
\* predicate can be evaluated and a record is matched if and only if w
\* stands, letters compared without case, at a word boundary of its first
\* name, last name or full name.
C7_PrefixAtWordBoundary ==
    (Built /\ Len(Tokens(name_input)) = 1 /\ ~HasSpecial(name_input)) =>
        /\ ~Malformed(name_query)
        /\ \A d \in members :
              Matches(name_query, d) <=>
                  \E f \in NameFields :
                      AtWordBoundary(Tokens(name_input)[1], d[f])

\* a one-word search matches a record in which the word begins no
\* white-space-delimited word, and leaves another record out
C7_Witness ==
    /\ Built
    /\ Len(Tokens(name_input)) = 1
    /\ ~HasSpecial(name_input)
    /\ \E d \in members :
          /\ Matches(name_query, d)
          /\ \A f \in NameFields : ~PrefixOfWord(Tokens(name_input)[1], d[f])
    /\ \E d \in members : ~Matches(name_query, d)

\* the search text with its two words in the other order
Swapped(text) == Tokens(text)[2] \o << " " >> \o Tokens(text)[1]

\* C8: the predicate built from a two-word search text "A B" matches the
\* same records as the one built from "B A", and the store rejects both or
\* neither.
C8_TwoTokenSymmetric ==
    (Built /\ Len(Tokens(name_input)) = 2) =>
        LET other == _build_name_search_query(Swapped(name_input))
        IN  /\ Malformed(other) = Malformed(name_query)
            /\ \A d \in members :
                  Matches(name_query, d) = Matches(other, d)

\* "Lee Mike" has been built and matches Mike Lee
C8_Witness ==
    /\ Built
    /\ name_input = << "L", "e", "e", " ", "M", "i", "k", "e" >>
    /\ \E d \in members :
          /\ d.bioguide_id = "L000577"
          /\ Matches(name_query, d)
          /\ ~Matches(_build_two_word_query_ForwardOnly(
                          Tokens(name_input)[1], Tokens(name_input)[2]), d)

\* C9: a one-word search matches a record only where the word stands at the
\* start of a word of one of the name fields, never inside a word; "Mic"
\* matches Michael and does not match Dominic.
C9_OnlyAtWordStart ==
    (Built /\ Len(Tokens(name_input)) = 1) =>
        /\ \A d \in members :
              Selects(name_query, d) =>
                  \E f \in NameFields :
                      AtWordStart(Tokens(name_input)[1], d[f])
        /\ name_input = << "M", "i", "c" >> =>
              \A d \in members :
                  /\ d.first_name = << "M", "i", "c", "h", "a", "e", "l" >>
                         => Selects(name_query, d)
                  /\ d.first_name = << "D", "o", "m", "i", "n", "i", "c" >>
                         => ~Selects(name_query, d)

(***************************************************************************)
(* MemberService.search_members (members/services.py), one action per      *)
(* await.                                                                  *)
(***************************************************************************)
\* the characters in the order of their code points
Ascii ==
    << "\t", "\n", " ", "'", "(", ")", "*", ",", "-", "." >>
        \o << "0", "1", "2", "3", "4", "5", "6", "7", "8", "9" >>
        \o UpperLetters \o << "\\", "_" >> \o LowerLetters \o << "|" >>

Code(c) == CHOOSE i \in DOMAIN Ascii : Ascii[i] = c

\* text a sorts before text b
RECURSIVE Before(_, _)
Before(a, b) ==
    IF b = << >> THEN FALSE
    ELSE IF a = << >> THEN TRUE
    ELSE IF Head(a) = Head(b) THEN Before(Tail(a), Tail(b))
    ELSE Code(Head(a)) < Code(Head(b))

\* .sort([("last_name", 1), ("first_name", 1)])
SortsBefore(d, e) ==
    \/ Before(d.last_name, e.last_name)
    \/ d.last_name = e.last_name /\ Before(d.first_name, e.first_name)

\* the orders the sorted cursor may deliver the documents in
RECURSIVE MemberOrders(_)
MemberOrders(docs) ==
    IF docs = {} THEN { << >> }
    ELSE UNION { { << d >> \o rest : rest \in MemberOrders(docs \ { d }) } :
                   d \in { x \in docs : \A y \in docs : ~SortsBefore(y, x) } }

MemberSummary(doc) ==
    [bioguide_id |-> doc.bioguide_id, name |-> doc.name,
     party |-> doc.party, state |-> doc.state, chamber |-> doc.chamber]

\* the search texts of the requests
MemberQs == { t \in SearchTerms : Len(t) <= 2 } \cup NamedTerms

MemberRequests ==
    [q : MemberQs, state : { "", "ut" }, party : { "", "r" },
     chamber : { "", "Senate" }, page : 1..2, page_size : { 2, 20 }]

\* the filter dict of lines 351-360
FilterDict(params) ==
    Fields((IF params.state # ""
            THEN << Eq("state", Upper(params.state)) >> ELSE << >>)
           \o (IF params.party # ""
               THEN << Eq("party", Upper(params.party)) >> ELSE << >>)
           \o (IF params.chamber # ""
               THEN << Eq("chamber", Lower(params.chamber)) >> ELSE << >>))

\* mutant: with a search text the structured filters are left out
MemberQuery_NameOnly(params) ==
    LET query == FilterDict(params)
        search_term == strip(params.q)
    IN  IF params.q # << >> /\ search_term # << >>
        THEN _build_name_search_query(search_term)
        ELSE query

\* the query of lines 351-374
MemberQuery(params) ==
    LET query == FilterDict(params)
        search_term == strip(params.q)
    IN  IF params.q # << >> /\ search_term # << >>
        THEN IF query # NoFilter
             THEN And(<< query, _build_name_search_query(search_term) >>)
             ELSE _build_name_search_query(search_term)
        ELSE query

\* lines 348-374: the call builds its query
MStart(params) ==
    /\ msearch.pc = "idle"
    /\ msearch' = [IdleSearch EXCEPT !.pc = "count", !.params = params,
                                     !.query = MemberQuery(params)]
    /\ UNCHANGED << name_input, name_query, members, request >>
    /\ UNCHANGED billVars
    /\ UNCHANGED voteVars

\* lines 377-381: count_documents, which raises when the store rejects the
\* query or cannot be reached
MCount ==
    /\ msearch.pc = "count"
    /\ \/ /\ ~Malformed(msearch.query)
          /\ LET total ==
                     Cardinality({ d \in members : Matches(msearch.query, d) })
                 page_size == msearch.params.page_size
             IN  msearch' =
                     [msearch EXCEPT
                         !.pc = "find",
                         !.total = total,
                         !.skip = (msearch.params.page - 1) * page_size,
                         !.total_pages = (total + page_size - 1) \div page_size]
       \/ msearch' = [msearch EXCEPT !.pc = "raised"]
    /\ UNCHANGED << name_input, name_query, members, request >>
    /\ UNCHANGED billVars
    /\ UNCHANGED voteVars

\* lines 385-412: the sorted page, made into the response
MFind ==
    /\ msearch.pc = "find"
    /\ \/ \E order \in MemberOrders({ d \in members :
                                         Matches(msearch.query, d) }) :
              LET last == IF msearch.skip + msearch.params.page_size
                              < Len(order)
                          THEN msearch.skip + msearch.params.page_size
                          ELSE Len(order)
                  page == SubSeq(order, msearch.skip + 1, last)
              IN  msearch' =
                      [msearch EXCEPT
                          !.pc = "done",
                          !.results =
                              [i \in DOMAIN page |-> MemberSummary(page[i])]]
       \/ msearch' = [msearch EXCEPT !.pc = "raised"]
    /\ UNCHANGED << name_input, name_query, members, request >>
    /\ UNCHANGED billVars
    /\ UNCHANGED voteVars

\* the call is over: the response or the exception has gone to the caller
MReturn ==
    /\ msearch.pc \in { "done", "raised" }
    /\ msearch' = IdleSearch
    /\ UNCHANGED << name_input, name_query, members, request >>
    /\ UNCHANGED billVars
    /\ UNCHANGED voteVars

InitMembers ==
    /\ bills = {}
    /\ synced = {}
    /\ passes = [congress \in Congresses |-> 0]
    /\ apiKey = TRUE
    /\ now = 0
    /\ calls = [p \in Procs |-> IdleCall]
    /\ history = FALSE
    /\ members = MemberSeed
    /\ name_input = << >>
    /\ name_query = NotBuilt
    /\ msearch = IdleSearch
    /\ InitVotes
    /\ getbill = IdleGet
    /\ request = IdleRequest

NextMembers ==
    \/ \E params \in MemberRequests : MStart(params)
    \/ MCount
    \/ MFind
    \/ MReturn

SpecMembers == InitMembers /\ [][NextMembers]_vars

\* the text is empty or white space only
Blank(text) == \A i \in DOMAIN text : text[i] \in Whitespace

\* the records the state, party and chamber filters of a request allow
Allowed(params) ==
    { d \in members :
        /\ params.state # "" => d.state = Upper(params.state)
        /\ params.party # "" => d.party = Upper(params.party)
        /\ params.chamber # "" => d.chamber = Lower(params.chamber) }

\* C10: for an empty or white-space-only search text the builder returns the
\* empty predicate, and a search_members call with such a text answers with
\* the records its other filters allow: it counts all of them and its page
\* is cut from them alone.
C10_BlankSearchNoFilter ==
    (msearch.pc = "done" /\ Blank(msearch.params.q)) =>
        LET params == msearch.params
            rest == Cardinality(Allowed(params)) - msearch.skip
            size == IF rest < 0 THEN 0
                    ELSE IF rest < params.page_size THEN rest
                    ELSE params.page_size
        IN  /\ _build_name_search_query(params.q) = NoFilter
            /\ msearch.total = Cardinality(Allowed(params))
            /\ Len(msearch.results) = size
            /\ \A i \in DOMAIN msearch.results :
                  \E d \in Allowed(params) :
                      msearch.results[i] = MemberSummary(d)
            /\ \A i, j \in DOMAIN msearch.results :
                  i # j => msearch.results[i].bioguide_id
                               # msearch.results[j].bioguide_id

\* a white-space-only search with a state filter has answered with all the
\* records of that state, which are some but not all of the collection
C10_Witness ==
    /\ msearch.pc = "done"
    /\ msearch.params.q # << >>
    /\ Blank(msearch.params.q)
    /\ msearch.params.state # ""
    /\ msearch.params.page_size = 20
    /\ msearch.total > 0
    /\ msearch.total < Cardinality(members)
    /\ Len(msearch.results) = msearch.total

\* the text with a tab put after each of its white-space characters
RECURSIVE Widened(_)
Widened(text) ==
    IF text = << >> THEN << >>
    ELSE (IF Head(text) \in Whitespace THEN << Head(text), "\t" >>
          ELSE << Head(text) >>) \o Widened(Tail(text))

\* white space that may stand before or after a text
Pads == { << >>, << " " >>, << "\t", " " >>, << "\n" >> }

\* texts that differ from text in leading, trailing or repeated white space
Respaced(text) ==
    { l \o t \o r : l \in Pads, r \in Pads,
                    t \in { text, Widened(text),
                            _normalize_search_term(text) } }

\* C11: the builder returns the same predicate, node for node, for a search
\* text and for its normalised form (trimmed, one space between words), so
\* texts that differ only in leading, trailing or repeated white space get
\* identical predicates.
C11_WhitespaceIdempotent ==
    Built =>
        /\ name_query =
               _build_name_search_query(_normalize_search_term(name_input))
        /\ \A other \in Respaced(name_input) :
              _build_name_search_query(other) = name_query

\* a two-word text with surplus white space has been built
C11_Witness ==
    /\ Built
    /\ name_input # _normalize_search_term(name_input)
    /\ Len(Tokens(name_input)) = 2
    /\ name_query = _build_two_word_query(Tokens(name_input)[1],
                                          Tokens(name_input)[2])

(***************************************************************************)
(* MemberMatcher (votes/member_matcher.py).                                *)
(***************************************************************************)
MikeLee ==
    [bioguide_id |-> "L000577",
     first_name |-> << "M", "i", "k", "e" >>,
     last_name |-> << "L", "e", "e" >>,
     name |-> << "M", "i", "k", "e", " ", "L", "e", "e" >>,
     party |-> "R", state |-> "UT", chamber |-> "senate"]

SmithIII ==
    [bioguide_id |-> "S000010",
     first_name |-> << "J", "a", "c", "k" >>,
     last_name |-> << "S", "m", "i", "t", "h", " ", "I", "I", "I" >>,
     name |-> << "J", "a", "c", "k", " ", "S", "m", "i", "t", "h", " ", "I", "I", "I" >>,
     party |-> "D", state |-> "CA", chamber |-> "senate"]

JohnSmith ==
    [bioguide_id |-> "S000011",
     first_name |-> << "J", "o", "h", "n" >>,
     last_name |-> << "S", "m", "i", "t", "h" >>,
     name |-> << "J", "o", "h", "n", " ", "S", "m", "i", "t", "h" >>,
     party |-> "R", state |-> "CA", chamber |-> "senate"]

JohnSmithHouse ==
    [bioguide_id |-> "S000012",
     first_name |-> << "J", "o", "h", "n" >>,
     last_name |-> << "S", "m", "i", "t", "h" >>,
     name |-> << "J", "o", "h", "n", " ", "S", "m", "i", "t", "h" >>,
     party |-> "D", state |-> "CA", chamber |-> "house"]

SmithJr ==
    [bioguide_id |-> "S000013",
     first_name |-> << "A", "d", "a", "m" >>,
     last_name |-> << "S", "m", "i", "t", "h", " ", "(", "J", "r", ".", ")" >>,
     name |-> << "A", "d", "a", "m", " ", "S", "m", "i", "t", "h", " ", "(", "J", "r", ".", ")" >>,
     party |-> "D", state |-> "CA", chamber |-> "senate"]

Smithson ==
    [bioguide_id |-> "S000014",
     first_name |-> << "J", "a", "n", "e" >>,
     last_name |-> << "S", "m", "i", "t", "h", "s", "o", "n" >>,
     name |-> << "J", "a", "n", "e", " ", "S", "m", "i", "t", "h", "s", "o", "n" >>,
     party |-> "R", state |-> "CA", chamber |-> "senate"]

\* the members the lookups start with, and those sync_members adds later
MatchSeed == { MikeLee, SmithIII, JohnSmithHouse, SmithJr }

MatchPool == MatchSeed \cup { JohnSmith, Smithson }

\* the (first_name, last_name, state, chamber) tuples looked up
MatchQueries ==
    { [first_name |-> << "J", "o", "h", "n" >>,
       last_name |-> << "S", "m", "i", "t", "h" >>,
       state |-> "CA", chamber |-> "senate"],
      [first_name |-> << "j", "o", "h", "n" >>,
       last_name |-> << "S", "M", "I", "T", "H" >>,
       state |-> "ca", chamber |-> "Senate"],
      [first_name |-> << "M", "i", "k", "e" >>,
       last_name |-> << "L", "e", "e" >>,
       state |-> "UT", chamber |-> "senate"],
      [first_name |-> << "A", "d", "a", "m" >>,
       last_name |-> << "S", "m", "i", "t", "h", " ", "(", "J", "r", ".", ")" >>,
       state |-> "CA", chamber |-> "senate"],
      [first_name |-> << "B", "o", "b" >>,
       last_name |-> << "S", "m", "i", "t", "h", " ", "(", "J", "r", ".", ")" >>,
       state |-> "CA", chamber |-> "senate"],
      [first_name |-> << "J", "a", "n", "e" >>,
       last_name |-> << "S", "m", "i", "t", "h", "s", "o", "n" >>,
       state |-> "CA", chamber |-> "senate"],
      [first_name |-> << "A", "n", "n" >>,
       last_name |-> << "(" >>,
       state |-> "CA", chamber |-> "senate"],
      [first_name |-> << "J", "o", "h", "n" >>,
       last_name |-> << "S", "m", "i", "t", "h" >>,
       state |-> "CA", chamber |-> "house"],
      [first_name |-> << "J", "a", "c", "k" >>,
       last_name |-> << "S", "m", "i", "t", "h", " ", "I", "I", "I" >>,
       state |-> "CA", chamber |-> "senate"],
      [first_name |-> << "J", ".", "h", "n" >>,
       last_name |-> << "S", "m", "i", "t", "h" >>,
       state |-> "CA", chamber |-> "senate"] }

\* the characters of a state code or chamber name
Chars(t) ==
    CASE t = "ca" -> << "c", "a" >>
      [] t = "ut" -> << "u", "t" >>
      [] t = "senate" -> << "s", "e", "n", "a", "t", "e" >>
      [] t = "house" -> << "h", "o", "u", "s", "e" >>
      [] OTHER -> << >>

\* str.lower() of a text
FoldText(text) == [i \in DOMAIN text |-> Fold(text[i])]

\* f"{last_name}_{first_name}_{state}_{chamber}".lower()
cache_key(q) ==
    FoldText(q.last_name) \o << "_" >> \o FoldText(q.first_name)
        \o << "_" >> \o Chars(Lower(q.state))
        \o << "_" >> \o Chars(Lower(q.chamber))

\* the filter of the exact step (lines 49-56)
ExactQuery(q) ==
    Fields(<< Regex("first_name", << "^" >> \o q.first_name \o << "$" >>),
              Regex("last_name", << "^" >> \o q.last_name \o << "$" >>),
              Eq("state", Upper(q.state)),
              Eq("chamber", Lower(q.chamber)) >>)

\* the filter of the fallback step (lines 64-70)
PrefixQuery(q) ==
    Fields(<< Regex("last_name", << "^" >> \o q.last_name),
              Eq("state", Upper(q.state)),
              Eq("chamber", Lower(q.chamber)) >>)

\* the tuple of the running lookup
Asked(m) ==
    [first_name |-> m.first_name, last_name |-> m.last_name,
     state |-> m.state, chamber |-> m.chamber]

\* self._member_cache[cache_key] = bioguide_id
CachePut(cache, key, id) ==
    { e \in cache : e.key # key } \cup { [key |-> key, id |-> id] }

Caught_Propagate(m, how) == [m EXCEPT !.pc = "raised", !.how = how]

\* mutant: a failed lookup is remembered as an empty identifier
Caught_Remember(m, how) ==
    [m EXCEPT !.pc = "done", !.result = "", !.how = how,
              !.cache = CachePut(m.cache, cache_key(Asked(m)), "")]

\* except Exception: log and return None (lines 85-87)
Caught(m, how) == [m EXCEPT !.pc = "done", !.result = "", !.how = how]

\* mutant: a hit is returned without being remembered
Hit_NoCache(m, doc, how) ==
    [m EXCEPT !.pc = "done", !.result = doc.bioguide_id, !.how = how]

\* return of a hit, remembered in the cache
Hit(m, doc, how) ==
    [m EXCEPT !.pc = "done", !.result = doc.bioguide_id, !.how = how,
              !.cache = CachePut(m.cache, cache_key(Asked(m)),
                                 doc.bioguide_id)]

\* lines 39-43: the call looks into the cache
MatchStart(q) ==
    /\ matcher.pc = "idle"
    /\ matcher' =
           IF \E e \in matcher.cache : e.key = cache_key(q)
           THEN LET e == CHOOSE e \in matcher.cache : e.key = cache_key(q)
                IN  [matcher EXCEPT !.pc = "done", !.result = e.id,
                                    !.how = "cache",
                                    !.first_name = q.first_name,
                                    !.last_name = q.last_name,
                                    !.state = q.state,
                                    !.chamber = q.chamber]
           ELSE [matcher EXCEPT !.pc = "exact", !.result = "", !.how = "",
                                !.first_name = q.first_name,
                                !.last_name = q.last_name,
                                !.state = q.state,
                                !.chamber = q.chamber]
    /\ UNCHANGED << members, votes, vsync >>
    /\ UNCHANGED << memberVars, request >>
    /\ UNCHANGED billVars

\* lines 45-61: the exact step; the store may be down or reject the regex
MatchExact ==
    /\ matcher.pc = "exact"
    /\ LET query == ExactQuery(Asked(matcher))
           hits == { d \in members : Matches(query, d) }
       IN  \/ matcher' = Caught(matcher, "down")
           \/ /\ Malformed(query)
              /\ matcher' = Caught(matcher, "rejected")
           \/ /\ ~Malformed(query)
              /\ IF hits = {}
                 THEN matcher' = [matcher EXCEPT !.pc = "prefix"]
                 ELSE \E d \in hits : matcher' = Hit(matcher, d, "exact")
    /\ UNCHANGED << members, votes, vsync >>
    /\ UNCHANGED << memberVars, request >>
    /\ UNCHANGED billVars

\* lines 63-83: the fallback step on the last-name prefix
MatchPrefix ==
    /\ matcher.pc = "prefix"
    /\ LET query == PrefixQuery(Asked(matcher))
           hits == { d \in members : Matches(query, d) }
       IN  \/ matcher' = Caught(matcher, "down")
           \/ /\ Malformed(query)
              /\ matcher' = Caught(matcher, "rejected")
           \/ /\ ~Malformed(query)
              /\ IF hits = {}
                 THEN matcher' = [matcher EXCEPT !.pc = "done",
                                                 !.result = "",
                                                 !.how = "none"]
                 ELSE \E d \in hits : matcher' = Hit(matcher, d, "prefix")
    /\ UNCHANGED << members, votes, vsync >>
    /\ UNCHANGED << memberVars, request >>
    /\ UNCHANGED billVars

\* the lookup has returned to its caller
MatchReturn ==
    /\ matcher.pc \in { "done", "raised" }
    /\ matcher' = [matcher EXCEPT !.pc = "idle"]
    /\ UNCHANGED << members, votes, vsync >>
    /\ UNCHANGED << memberVars, request >>
    /\ UNCHANGED billVars

\* a new MemberMatcher() (sync_votes.py:245), or clear_cache()
NewMatcher ==
    /\ matcher.pc = "idle"
    /\ matcher.cache # {}
    /\ matcher' = IdleMatcher
    /\ UNCHANGED << members, votes, vsync >>
    /\ UNCHANGED << memberVars, request >>
    /\ UNCHANGED billVars

\* sync_members upserts a member the collection did not hold
AddMember(doc) ==
    /\ \A d \in members : d.bioguide_id # doc.bioguide_id
    /\ members' = members \cup { doc }
    /\ UNCHANGED voteVars
    /\ UNCHANGED << memberVars, request >>
    /\ UNCHANGED billVars

InitMatch ==
    /\ bills = {}
    /\ synced = {}
    /\ passes = [congress \in Congresses |-> 0]
    /\ apiKey = TRUE
    /\ now = 0
    /\ calls = [p \in Procs |-> IdleCall]
    /\ history = FALSE
    /\ members = MatchSeed
    /\ name_input = << >>
    /\ name_query = NotBuilt
    /\ msearch = IdleSearch
    /\ InitVotes
    /\ getbill = IdleGet
    /\ request = IdleRequest

NextMatch ==
    \/ \E q \in MatchQueries : MatchStart(q)
    \/ MatchExact
    \/ MatchPrefix
    \/ MatchReturn
    \/ NewMatcher
    \/ \E doc \in MatchPool : AddMember(doc)

SpecMatch == InitMatch /\ [][NextMatch]_vars

\* the two texts are equal, letters compared without case
SameText(a, b) == FoldText(a) = FoldText(b)

\* the stored members whose first name, last name, state and chamber are
\* those of the tuple
ExactMembers(q) ==
    { d \in members :
        /\ SameText(d.first_name, q.first_name)
        /\ SameText(d.last_name, q.last_name)
        /\ d.state = Upper(q.state)
        /\ d.chamber = Lower(q.chamber) }

\* the stored members of the tuple's state and chamber whose last name
\* begins with the tuple's last name
PrefixMembers(q) ==
    { d \in members :
        /\ OccursAt(q.last_name, d.last_name, 0)
        /\ d.state = Upper(q.state)
        /\ d.chamber = Lower(q.chamber) }

\* C12: when the store holds a member whose first name, last name (without
\* case), state and chamber are those of the looked-up tuple, and the store
\* answers, the lookup returns the identifier of such a member, not that of
\* a member that only shares the last-name prefix.
C12_ExactMatchWins ==
    (/\ matcher.pc = "done"
     /\ matcher.how # "down"
     /\ ExactMembers(Asked(matcher)) # {}) =>
        \E d \in ExactMembers(Asked(matcher)) :
            matcher.result = d.bioguide_id

\* C13: when the store holds no exact match but a member of the same state
\* and chamber whose last name begins (without case) with the looked-up
\* last name, and the store answers, the lookup returns the identifier of
\* such a member whatever the first name; ("John", "Smith", "CA") resolves
\* to the senate member of CA stored as "Smith III".
C13_PrefixFallback ==
    (/\ matcher.pc = "done"
     /\ matcher.how # "down"
     /\ ExactMembers(Asked(matcher)) = {}
     /\ PrefixMembers(Asked(matcher)) # {}) =>
        /\ \E d \in PrefixMembers(Asked(matcher)) :
              matcher.result = d.bioguide_id
        /\ PrefixMembers(Asked(matcher)) = { SmithIII } =>
              matcher.result = SmithIII.bioguide_id

\* C14: a lookup never raises; when the store raises during a step, or when
\* neither the exact nor the prefix step finds a document, it returns None.
C14_AbsentNeverRaises ==
    /\ matcher.pc # "raised"
    /\ (matcher.pc = "done" /\ matcher.how \in { "down", "rejected", "none" })
           => matcher.result = ""

\* a lookup met a store that raised and has returned None; another tuple
\* would have been resolved
C14_Witness ==
    /\ matcher.pc = "done"
    /\ matcher.how = "down"
    /\ matcher.result = ""
    /\ PrefixMembers(Asked(matcher)) # {}

(***************************************************************************)
(* sync_votes (votes/management/commands/sync_votes.py): one vote of a     *)
(* batch at a time is fetched, its member records are resolved and the     *)
(* vote is upserted into the votes collection.                             *)
(***************************************************************************)
\* --congress and --session of the command (defaults)
VoteCongress == 119
VoteSession == 1

\* page_size of _sync_chamber_votes
PageSize == 100

\* the greatest --limit of the command
MaxLimit == 2

\* the roll calls upstream lists, in its order: for the House a vote whose
\* member results name a representative the members collection holds, one
\* it does not hold and one without a position, and a record without
\* rollCallNumber; for the Senate a vote with its XML, one without a
\* sourceDataURL and a later vote with its XML
UpstreamVotes(chamber) ==
    IF chamber = "house"
    THEN << [rollCallNumber |-> 1, sourceDataURL |-> FALSE],
            [rollCallNumber |-> 0, sourceDataURL |-> FALSE] >>
    ELSE << [rollCallNumber |-> 1, sourceDataURL |-> TRUE],
            [rollCallNumber |-> 2, sourceDataURL |-> FALSE],
            [rollCallNumber |-> 3, sourceDataURL |-> TRUE] >>

\* the smaller of two numbers
Min(a, b) == IF a < b THEN a ELSE b

\* get_house_votes / get_senate_votes: the limit records after offset
get_votes(chamber, limit, offset) ==
    SubSeq(UpstreamVotes(chamber), offset + 1,
           Min(offset + limit, Len(UpstreamVotes(chamber))))

\* houseRollCallVoteMemberVotes.results of a House roll call
HouseResults(roll) ==
    << [bioguideID |-> "S000012", voteCast |-> "Yea"],
       [bioguideID |-> "Z000001", voteCast |-> "Nay"],
       [bioguideID |-> "S000012", voteCast |-> ""] >>

\* the members of a Senate roll call's XML; the last record has no last
\* name, which match_senate_member reads as "" (member_matcher.py:101)
SenateXML(roll) ==
    << [first_name |-> << "M", "i", "k", "e" >>,
        last_name |-> << "L", "e", "e" >>,
        state |-> "UT", vote_cast |-> "Yea"],
       [first_name |-> << "J", "o", "h", "n" >>,
        last_name |-> << "S", "m", "i", "t", "h" >>,
        state |-> "CA", vote_cast |-> "Nay"],
       [first_name |-> << "J", "a", "n", "e" >>,
        last_name |-> << "D", "o", "e" >>,
        state |-> "CA", vote_cast |-> "Yea"],
       [first_name |-> << "A", "n", "n" >>,
        last_name |-> << >>,
        state |-> "UT", vote_cast |-> "Nay"] >>

\* f"{'h' if chamber == 'house' else 's'}{congress}-{session}-{roll_number}"
VoteId(chamber, congress, session, roll_number) ==
    << IF chamber = "house" THEN "h" ELSE "s", congress, session,
       roll_number >>

\* lines 220-228: the House results as the vote's "members"
RECURSIVE HouseMembers(_)
HouseMembers(results) ==
    IF results = << >> THEN << >>
    ELSE << [bioguideId |-> Head(results).bioguideID,
             vote |-> Head(results).voteCast] >>
             \o HouseMembers(Tail(results))

\* lines 328-333: member_votes[bioguide_id] = vote_position for the records
\* that have both
RECURSIVE MemberVotes(_)
MemberVotes(records) ==
    IF records = << >> THEN << >>
    ELSE The({ IF r.bioguideId # "" /\ r.vote # ""
               THEN (r.bioguideId :> r.vote) @@ rest
               ELSE rest :
               r \in { records[Len(records)] },
               rest \in { MemberVotes(SubSeq(records, 1,
                                             Len(records) - 1)) } })

\* _transform_vote, of the vote's "members"
_transform_vote(vote_data, chamber, congress, session, roll_number) ==
    [vote_id |-> VoteId(chamber, congress, session, roll_number),
     chamber |-> chamber, congress |-> congress, session |-> session,
     roll_number |-> roll_number,
     member_votes |-> MemberVotes(vote_data)]

\* the lookup match_senate_member makes for a member of the XML
SenateQuery(member) ==
    [first_name |-> member.first_name, last_name |-> member.last_name,
     state |-> member.state, chamber |-> "senate"]

\* where _fetch_detailed_vote goes on with the members left to resolve
AfterMatch(todo) == IF todo = << >> THEN "store" ELSE "match"

\* mutant: the loop goes on without advancing offset
RECURSIVE VoteNext_NoAdvance(_)
VoteNext_NoAdvance(s) ==
    IF s.batch = << >>
    THEN [s EXCEPT !.pc = IF s.synced >= s.limit THEN "returned"
                          ELSE "batch",
                   !.roll = 0, !.todo = << >>, !.members = << >>]
    ELSE IF Head(s.batch).rollCallNumber = 0
         THEN VoteNext_NoAdvance([s EXCEPT !.batch = Tail(@)])
         ELSE IF s.chamber = "house"
              THEN [s EXCEPT !.batch = Tail(@), !.pc = "house",
                             !.roll = Head(s.batch).rollCallNumber,
                             !.todo = << >>, !.members = << >>]
              ELSE IF ~Head(s.batch).sourceDataURL
                   THEN VoteNext_NoAdvance([s EXCEPT !.batch = Tail(@),
                                                     !.errors = @ + 1])
                   ELSE [s EXCEPT !.batch = Tail(@), !.pc = "parse",
                                  !.roll = Head(s.batch).rollCallNumber,
                                  !.todo = << >>, !.members = << >>]

\* lines 157-173 and 190-194: the loop goes on with the next vote of the
\* batch; one without rollCallNumber is skipped, a Senate vote without
\* sourceDataURL counts as an error; after the last vote of the batch
\* offset advances by the batch's length and the loop ends when synced
\* has reached limit
RECURSIVE VoteNext(_)
VoteNext(s) ==
    IF s.batch = << >>
    THEN [s EXCEPT !.offset = @ + s.count,
                   !.pc = IF s.synced >= s.limit THEN "returned"
                          ELSE "batch",
                   !.roll = 0, !.todo = << >>, !.members = << >>]
    ELSE IF Head(s.batch).rollCallNumber = 0
         THEN VoteNext([s EXCEPT !.batch = Tail(@)])
         ELSE IF s.chamber = "house"
              THEN [s EXCEPT !.batch = Tail(@), !.pc = "house",
                             !.roll = Head(s.batch).rollCallNumber,
                             !.todo = << >>, !.members = << >>]
              ELSE IF ~Head(s.batch).sourceDataURL
                   THEN VoteNext([s EXCEPT !.batch = Tail(@),
                                           !.errors = @ + 1])
                   ELSE [s EXCEPT !.batch = Tail(@), !.pc = "parse",
                                  !.roll = Head(s.batch).rollCallNumber,
                                  !.todo = << >>, !.members = << >>]

\* lines 83-97 and 126-131: the command calls _sync_chamber_votes for the
\* chamber of --chamber or, without one, for the House and then for the
\* Senate, with the same limit
SyncChamber(chamber, limit) ==
    /\ \/ vsync.pc = "idle"
       \/ /\ vsync.pc = "returned"
          /\ vsync.chamber = "house"
          /\ chamber = "senate"
          /\ limit = vsync.limit
    /\ vsync' = [IdleVote EXCEPT
                     !.chamber = chamber,
                     !.limit = limit,
                     !.pc = IF 0 < limit THEN "batch" ELSE "returned"]
    /\ UNCHANGED << members, matcher, votes >>
    /\ UNCHANGED << memberVars, request >>
    /\ UNCHANGED billVars

\* lines 132-155 and 196-199: a batch is fetched; a failure counts as an
\* error and ends the loop, an empty batch ends the loop
VoteBatch ==
    /\ vsync.pc = "batch"
    /\ \/ vsync' = [vsync EXCEPT !.errors = @ + 1, !.pc = "returned"]
       \/ \E got \in { get_votes(vsync.chamber,
                                  Min(PageSize, vsync.limit - vsync.synced),
                                  vsync.offset) } :
              vsync' = IF got = << >>
                       THEN [vsync EXCEPT !.pc = "returned"]
                       ELSE VoteNext([vsync EXCEPT !.batch = got,
                                                   !.count = Len(got)])
    /\ UNCHANGED << members, matcher, votes >>
    /\ UNCHANGED << memberVars, request >>
    /\ UNCHANGED billVars

\* lines 209-230: the House path; either request may fail (line 285)
VoteFetchHouse ==
    /\ vsync.pc = "house"
    /\ \/ vsync' = VoteNext([vsync EXCEPT !.errors = @ + 1])
       \/ vsync' = [vsync EXCEPT
                        !.pc = "store",
                        !.members = HouseMembers(HouseResults(vsync.roll))]
    /\ UNCHANGED << members, matcher, votes >>
    /\ UNCHANGED << memberVars, request >>
    /\ UNCHANGED billVars

\* lines 238-246: the XML is fetched and parsed (None on any failure) and
\* a new MemberMatcher is made
VoteParse ==
    /\ vsync.pc = "parse"
    /\ \/ /\ vsync' = VoteNext([vsync EXCEPT !.errors = @ + 1])
          /\ UNCHANGED matcher
       \/ /\ vsync' = [vsync EXCEPT
                           !.pc = AfterMatch(SenateXML(vsync.roll)),
                           !.todo = SenateXML(vsync.roll)]
          /\ matcher' = IdleMatcher
    /\ UNCHANGED << members, votes >>
    /\ UNCHANGED << memberVars, request >>
    /\ UNCHANGED billVars

\* line 249: match_senate_member of the next member of the XML
VoteMatch ==
    /\ vsync.pc = "match"
    /\ vsync.todo # << >>
    /\ MatchStart(SenateQuery(Head(vsync.todo)))

\* lines 251-262: a resolved member is kept, an unresolved one is dropped
VoteMatched ==
    /\ vsync.pc = "match"
    /\ matcher.pc = "done"
    /\ matcher' = [matcher EXCEPT !.pc = "idle"]
    /\ vsync' = [vsync EXCEPT
                     !.pc = AfterMatch(Tail(vsync.todo)),
                     !.todo = Tail(vsync.todo),
                     !.members =
                         IF matcher.result # ""
                         THEN Append(@, [bioguideId |-> matcher.result,
                                         vote |-> Head(vsync.todo).vote_cast])
                         ELSE @]
    /\ UNCHANGED << members, votes >>
    /\ UNCHANGED << memberVars, request >>
    /\ UNCHANGED billVars

\* _store_vote and lines 180-188: the transformed vote is upserted under
\* its vote_id and counted; a failure of the store counts as an error
VoteStore ==
    /\ vsync.pc = "store"
    /\ \/ /\ UNCHANGED votes
          /\ vsync' = VoteNext([vsync EXCEPT !.errors = @ + 1])
       \/ /\ LET transformed ==
                     _transform_vote(vsync.members, vsync.chamber,
                                     VoteCongress, VoteSession, vsync.roll)
             IN  votes' = { v \in votes :
                                v.vote_id # transformed.vote_id }
                              \cup { transformed }
          /\ vsync' = VoteNext([vsync EXCEPT !.synced = @ + 1])
    /\ UNCHANGED << members, matcher >>
    /\ UNCHANGED << memberVars, request >>
    /\ UNCHANGED billVars

InitVoteSync == InitMatch

NextVoteSync ==
    \/ \E chamber \in { "house", "senate" }, limit \in 0..MaxLimit :
           SyncChamber(chamber, limit)
    \/ VoteBatch
    \/ VoteFetchHouse
    \/ VoteParse
    \/ VoteMatch
    \/ MatchExact
    \/ MatchPrefix
    \/ VoteMatched
    \/ VoteStore
    \/ \E doc \in MatchPool : AddMember(doc)

SpecVoteSync == InitVoteSync /\ [][NextVoteSync]_vars

\* C15: in every stored vote each key of member_votes is the identifier of
\* a member the members collection holds
C15_KeysResolve ==
    \A v \in votes :
        \A id \in DOMAIN v.member_votes :
            \E d \in members : d.bioguide_id = id

\* the same of the votes of one chamber
SenateKeysResolve ==
    \A v \in votes :
        v.chamber = "senate" =>
            \A id \in DOMAIN v.member_votes :
                \E d \in members : d.bioguide_id = id

\* the least number of pages of page_size that hold total records
Ceiling(total, page_size) ==
    CHOOSE n \in 0..total :
        /\ n * page_size >= total
        /\ n > 0 => (n - 1) * page_size < total

\* C16: the response's total_pages is the ceiling of total / page_size, and
\* 1 when total is 0
C16_TotalPagesAtLeastOne ==
    msearch.pc = "done" =>
        msearch.total_pages =
            IF msearch.total = 0 THEN 1
            ELSE Ceiling(msearch.total, msearch.params.page_size)

\* the same of the responses that hold at least one record
TotalPagesWhenPositive ==
    (msearch.pc = "done" /\ msearch.total > 0) =>
        msearch.total_pages =
            Ceiling(msearch.total, msearch.params.page_size)

\* C17: search_members never raises: when count_documents or find fails
\* the call still ends with a response
C17_NeverRaises == msearch.pc # "raised"

\* a search text whose predicate the store rejects is being counted
RejectedQuery == msearch.pc = "count" /\ Malformed(msearch.query)

\* the members a request selects: those its state, party and chamber
\* filters allow and, with a search text, its name predicate holds of
Selected(params) ==
    { d \in Allowed(params) :
        ~Blank(params.q) =>
            Matches(_build_name_search_query(strip(params.q)), d) }

\* the stored member a summary was made of
Stored(summary) ==
    CHOOSE d \in members : d.bioguide_id = summary.bioguide_id

\* document d can stand at offset o (from 0) of docs in ascending
\* (last_name, first_name) order
CanStandAt(d, o, docs) ==
    /\ Cardinality({ e \in docs : SortsBefore(e, d) }) <= o
    /\ o < Cardinality({ e \in docs : ~SortsBefore(d, e) })

\* C18: a search_members response counts exactly the members that satisfy
\* the name predicate and every supplied filter, and its results are the
\* elements at offsets (page - 1) * page_size to page * page_size - 1 of
\* these members in ascending (last_name, first_name) order.
C18_SelectsSortsAndPages ==
    msearch.pc = "done" =>
        LET params == msearch.params
            docs == Selected(params)
            first == (params.page - 1) * params.page_size
            rest == Cardinality(docs) - first
            size == IF rest < 0 THEN 0
                    ELSE IF rest < params.page_size THEN rest
                    ELSE params.page_size
        IN  /\ msearch.total = Cardinality(docs)
            /\ Len(msearch.results) = size
            /\ \A i \in DOMAIN msearch.results :
                  /\ \E d \in docs : msearch.results[i] = MemberSummary(d)
                  /\ CanStandAt(Stored(msearch.results[i]), first + i - 1,
                                docs)
            /\ \A i, j \in DOMAIN msearch.results :
                  i # j => msearch.results[i].bioguide_id
                               # msearch.results[j].bioguide_id

\* the second page of a search with a text and a state filter holds the
\* third of three matches
C18_Witness ==
    /\ msearch.pc = "done"
    /\ ~Blank(msearch.params.q)
    /\ msearch.params.state # ""
    /\ msearch.params.page = 2
    /\ msearch.params.page_size = 2
    /\ msearch.total = 3
    /\ Len(msearch.results) = 1

(***************************************************************************)
(* BillService.get_bill (bills/services.py:22-77).  A bill_id is the       *)
(* sequence of its characters.                                             *)
(***************************************************************************)
Digits == << "0", "1", "2", "3", "4", "5", "6", "7", "8", "9" >>

\* the text as a string of the store
RECURSIVE Str(_)
Str(text) == IF text = << >> THEN "" ELSE Head(text) \o Str(Tail(text))

\* int(text) of a text of decimal digits
RECURSIVE Int10(_)
Int10(text) ==
    IF text = << >> THEN 0
    ELSE 10 * Int10(SubSeq(text, 1, Len(text) - 1))
             + (CHOOSE i \in DOMAIN Digits : Digits[i] = text[Len(text)]) - 1

\* the length of the longest prefix of text whose characters are in chars
RECURSIVE Run(_, _)
Run(text, chars) ==
    IF text # << >> /\ Head(text) \in chars
    THEN 1 + Run(Tail(text), chars)
    ELSE 0

\* lines 46-57 on the parts of the bill_id: int(parts[1]) and
\* re.match(r"([a-z]+)(\d+)", parts[0]); << >> where the code returns None
ParseParts(front, tail) ==
    LET letters == Run(front, Range(LowerLetters))
        digits == Run(SubSeq(front, letters + 1, Len(front)), Range(Digits))
    IN  IF \/ tail = << >>
           \/ Run(tail, Range(Digits)) # Len(tail)
           \/ letters = 0
           \/ digits = 0
        THEN << >>
        ELSE << [congress |-> Int10(tail),
                 bill_type |-> Str(SubSeq(front, 1, letters)),
                 bill_number |->
                     Int10(SubSeq(front, letters + 1, letters + digits))] >>

\* lines 38-42: bill_id.rsplit("-", 1) must give two parts
ParseBillId(bill_id) ==
    LET dashes == { i \in DOMAIN bill_id : bill_id[i] = "-" }
        last == CHOOSE i \in dashes : \A j \in dashes : j <= i
    IN  IF dashes = {} THEN << >>
        ELSE ParseParts(SubSeq(bill_id, 1, last - 1),
                        SubSeq(bill_id, last + 1, Len(bill_id)))

\* the identifiers get_bill is asked for: a bill, a bill upstream answers
\* with an amendment record, a bill of the other congress, and texts that
\* are no bill_id
BillIds ==
    { << "h", "r", "1", "-", "1", "1", "9" >>,
      << "h", "r", "3", "-", "1", "1", "9" >>,
      << "s", "2", "-", "1", "1", "8" >>,
      << "h", "r", "1" >>,
      << "H", "R", "1", "-", "1", "1", "9" >>,
      << "h", "r", "-", "1", "1", "9" >>,
      << "h", "r", "1", "-", "x" >> }

\* line 31: the call starts
GetBill(bill_id) ==
    /\ getbill.pc = "idle"
    /\ getbill' = [IdleGet EXCEPT !.pc = "find", !.bill_id = bill_id]
    /\ UNCHANGED << bills, members, synced, passes, apiKey, now, calls,
                    history >>
    /\ UNCHANGED << memberVars, request >>
    /\ UNCHANGED voteVars

\* lines 34-57: the stored document is returned; without one the bill_id
\* is parsed.  A failure of find_one propagates.
GetBillFind ==
    /\ getbill.pc = "find"
    /\ \/ getbill' = [getbill EXCEPT !.pc = "raised"]
       \/ \E doc \in find_one(bills, Str(getbill.bill_id)) :
             getbill' =
                 IF doc # << >>
                 THEN [getbill EXCEPT !.pc = "done", !.bill_data = doc,
                                      !.how = "stored"]
                 ELSE IF ParseBillId(getbill.bill_id) = << >>
                 THEN [getbill EXCEPT !.pc = "done", !.how = "invalid"]
                 ELSE The({ [getbill EXCEPT
                                !.pc = "fetch",
                                !.congress = parsed.congress,
                                !.bill_type = parsed.bill_type,
                                !.bill_number = parsed.bill_number] :
                            parsed \in { ParseBillId(getbill.bill_id)[1] } })
    /\ UNCHANGED << bills, members, synced, passes, apiKey, now, calls,
                    history >>
    /\ UNCHANGED << memberVars, request >>
    /\ UNCHANGED voteVars

\* lines 60-64: the bill is fetched and transformed; bill_data["updated_at"]
\* raises when transform_bill returned None, and line 75 returns None
GetBillFetch ==
    /\ getbill.pc = "fetch"
    /\ \/ getbill' = [getbill EXCEPT !.pc = "done", !.how = "failed"]
       \/ /\ get_congress_client_ok
          /\ LET bill_data ==
                     transform_bill(UpstreamBill(getbill.congress,
                                                 getbill.bill_type,
                                                 getbill.bill_number),
                                    << >>, << >>)
             IN  getbill' =
                     IF bill_data = << >>
                     THEN [getbill EXCEPT !.pc = "done", !.how = "amendment"]
                     ELSE [getbill EXCEPT
                              !.pc = "store",
                              !.bill_data =
                                  << [bill_data[1] EXCEPT
                                         !.updated_at = now] >>]
    /\ UNCHANGED << bills, members, synced, passes, apiKey, now, calls,
                    history >>
    /\ UNCHANGED << memberVars, request >>
    /\ UNCHANGED voteVars

\* lines 67-73: the upsert under the bill_id asked for; line 75 when the
\* store fails
GetBillStore ==
    /\ getbill.pc = "store"
    /\ \/ /\ getbill' = [getbill EXCEPT !.pc = "done", !.bill_data = << >>,
                                          !.how = "failed"]
          /\ UNCHANGED bills
       \/ /\ \E coll \in update_one(bills, Str(getbill.bill_id),
                                    getbill.bill_data[1]) : bills' = coll
          /\ getbill' = [getbill EXCEPT !.pc = "done", !.how = "fetched"]
    /\ UNCHANGED << members, synced, passes, apiKey, now, calls, history >>
    /\ UNCHANGED << memberVars, request >>
    /\ UNCHANGED voteVars

\* the call has returned to its caller
GetBillReturn ==
    /\ getbill.pc \in { "done", "raised" }
    /\ getbill' = IdleGet
    /\ UNCHANGED << bills, members, synced, passes, apiKey, now, calls,
                    history >>
    /\ UNCHANGED << memberVars, request >>
    /\ UNCHANGED voteVars

\* get_bill calls among the searches of one caller
NextGetBill ==
    \/ \E q \in ConcInputs : Start("r1", q)
    \/ PartyMembers("r1")
    \/ Count("r1")
    \/ ListFetch("r1")
    \/ FindOne("r1")
    \/ Detail("r1")
    \/ Upsert("r1")
    \/ Recount("r1")
    \/ Find("r1")
    \/ Tick
    \/ \E bill_id \in BillIds : GetBill(bill_id)
    \/ GetBillFind
    \/ GetBillFetch
    \/ GetBillStore
    \/ GetBillReturn

SpecGetBill == InitConc /\ [][NextGetBill]_vars

\* the upstream record is an amendment: it has amendmentNumber, or lacks
\* the bill number or the type
IsAmendment(data) ==
    data.amendmentNumber \/ data.number = 0 \/ data.type = ""

\* C19: no stored bill is built from an upstream amendment record
C19_NoAmendmentStored ==
    \A d \in bills :
        /\ d.type # ""
        /\ d.number # 0
        /\ ~IsAmendment(UpstreamBill(d.congress, d.type, d.number))

\* get_bill has been answered with an amendment record and returns None,
\* after a sync pass that dropped records has stored a bill
C19_Witness ==
    /\ getbill.pc = "done"
    /\ getbill.how = "amendment"
    /\ getbill.bill_data = << >>
    /\ bills # {}
    /\ \E p \in Procs : calls[p].dropped > 0

\* the step in which the search of r1 leaves its first count
CountStep ==
    calls["r1"].pc = "count" /\ calls'["r1"].pc # "count"

\* the search of r1 calls sync_recent_bills in this step
SyncStarts == calls'["r1"].sync_calls > calls["r1"].sync_calls

\* the count of r1's search is short and its scope is not marked
ShortAndUnmarked ==
    LET c == calls["r1"]
    IN  /\ count_documents(bills, c.q, c.ids) < c.q.page_size
        /\ (IF c.q.congress # 0 THEN c.q.congress ELSE 119) \notin synced

\* C20: search_bills starts a sync exactly when its first count is less
\* than page_size and its target congress (the requested one, or 119) is
\* not in _synced_congresses; a search that starts none makes no upstream
\* call and writes nothing to the bills collection.
C20_SyncIffShortAndUnmarked ==
    [][ /\ CountStep => (SyncStarts <=> ShortAndUnmarked)
        /\ SyncStarts => CountStep
        /\ calls'["r1"].sync_calls = 0 =>
              /\ ~calls'["r1"].listed
              /\ calls'["r1"].upserted = 0
              /\ calls'["r1"].dropped = 0
              /\ bills' = bills ]_vars

\* a search has answered without a sync although its count was short,
\* because its scope was marked
C20_Witness ==
    LET c == calls["r1"]
    IN  /\ c.pc = "done"
        /\ c.sync_calls = 0
        /\ c.total < c.q.page_size
        /\ c.target \in synced
        /\ bills # {}

(***************************************************************************)
(* The sync pass over the listed bills (bills/services.py:220-254).        *)
(***************************************************************************)
\* the bill_id of the listed bill the pass of r1 is at
ListedId ==
    BillId(Lower(Item(calls["r1"]).type), Item(calls["r1"]).number,
           Item(calls["r1"]).congress)

\* a stored document of that bill was updated less than an hour ago
ListedIsFresh ==
    \E b \in bills :
        /\ b.bill_id = ListedId
        /\ b.updated_at # NoTime
        /\ now - b.updated_at < OneHour

\* C21: in a sync pass a listed bill whose stored document was updated
\* less than an hour ago is skipped (no detail fetch, the collection is
\* left as it is, nothing is counted); any other listed bill goes to the
\* detail fetch, and what the fetch returns is upserted under its bill_id
\* and counted.
C21_FreshSkippedStaleFetched ==
    [][ LET c == calls["r1"]
            d == calls'["r1"]
        IN  /\ (c.pc = "findone" /\ d # c /\ ~d.caught) =>
                  IF ListedIsFresh
                  THEN /\ d.pc # "detail"
                       /\ d.idx # c.idx
                       /\ d.synced_count = c.synced_count
                       /\ d.upserted = c.upserted
                       /\ bills' = bills
                  ELSE /\ d.pc = "detail"
                       /\ d.idx = c.idx
            /\ (c.pc = "upsert" /\ d # c /\ ~d.caught) =>
                  /\ { b \in bills' : b.bill_id # ListedId }
                         = { b \in bills : b.bill_id # ListedId }
                  /\ \E b \in bills' :
                        /\ b.bill_id = ListedId
                        /\ b.updated_at = c.pending[1].updated_at
                        /\ b.title = c.pending[1].title
                        /\ b.summaries = c.pending[1].summaries
                  /\ Cardinality({ b \in bills' : b.bill_id = ListedId })
                         <= IF \E b \in bills : b.bill_id = ListedId
                            THEN Cardinality({ b \in bills :
                                                  b.bill_id = ListedId })
                            ELSE 1
                  /\ d.synced_count = c.synced_count + 1
            /\ (d.pc = "detail" /\ c.pc # "detail") =>
                  (c.pc = "findone" /\ ~ListedIsFresh) ]_vars

\* a pass over congress 119 has ended without an upsert while hr1-119 is
\* stored: the bill was skipped as fresh, only the amendment was dropped
C21_Witness ==
    LET c == calls["r1"]
    IN  /\ c.pc = "recount"
        /\ c.target = 119
        /\ c.marked
        /\ ~c.caught
        /\ c.upserted = 0
        /\ c.synced_count = 0
        /\ c.dropped = 1
        /\ \E b \in bills : b.bill_id = "hr1-119" /\ b.updated_at = now

\* a pass has fetched again a stored bill that was an hour old
C21_WitnessStale ==
    LET c == calls["r1"]
    IN  /\ c.pc = "detail"
        /\ \E b \in bills :
              /\ b.bill_id = ListedId
              /\ now - b.updated_at >= OneHour

\* the upstream record of the listed bill the pass of r1 is at
ListedBill ==
    UpstreamBill(Item(calls["r1"]).congress, Lower(Item(calls["r1"]).type),
                 Item(calls["r1"]).number)

\* fetch_bill_complete of the listed bill with the given outcomes of its
\* three requests
ListedFetch(okBill, okSummaries, okSubjects) ==
    fetch_bill_complete(Item(calls["r1"]).congress,
                        Lower(Item(calls["r1"]).type),
                        Item(calls["r1"]).number,
                        okBill, okSummaries, okSubjects)

\* the three requests fail independently: without the bill there is no
\* result; with it (and the record being a bill) there is one, which holds
\* the summaries and the subjects exactly when their request succeeded
FailIndependently ==
    \A okSummaries, okSubjects \in BOOLEAN :
        /\ ListedFetch(FALSE, okSummaries, okSubjects) = << >>
        /\ ~IsAmendment(ListedBill) =>
              \E b \in { ListedFetch(TRUE, okSummaries, okSubjects) } :
                  /\ b # << >>
                  /\ b[1].bill_id = ListedId
                  /\ b[1].title = ListedBill.title
                  /\ b[1].summaries =
                        IF okSummaries
                        THEN UpstreamSummaries(b[1].congress, b[1].type,
                                               b[1].number)
                        ELSE << >>
                  /\ b[1].legislative_subjects =
                        IF okSubjects
                        THEN UpstreamSubjects(b[1].congress, b[1].type,
                                              b[1].number).legislativeSubjects
                        ELSE {}
                  /\ b[1].policy_area =
                        IF okSubjects
                        THEN UpstreamSubjects(b[1].congress, b[1].type,
                                              b[1].number).policyArea
                        ELSE ""

\* C22: the three requests of fetch_bill_complete fail independently, and
\* a record that yields no bill is dropped alone: the pass goes on with
\* the next listed record, or ends in the ordinary way after the last one.
C22_FailuresStayLocal ==
    [][ LET c == calls["r1"]
            d == calls'["r1"]
        IN  (c.pc = "detail" /\ d # c) =>
              /\ FailIndependently
              /\ ~d.caught
              /\ \/ /\ d.pc = "upsert"
                    /\ d.idx = c.idx
                    /\ d.dropped = c.dropped
                    /\ \E okSummaries, okSubjects \in BOOLEAN :
                          d.pending = ListedFetch(TRUE, okSummaries,
                                                  okSubjects)
                 \/ /\ d.dropped = c.dropped + 1
                    /\ d.synced_count = c.synced_count
                    /\ bills' = bills
                    /\ \/ d.pc = "findone" /\ d.idx > c.idx
                       \/ /\ d.pc = "recount"
                          /\ d.marked
                          /\ NextItem(UpstreamList(c.target), c.idx + 1) = 0
        ]_vars

\* a bill whose summaries request failed and whose subjects request
\* succeeded is about to be stored, after a record of the same pass was
\* dropped
C22_Witness ==
    LET c == calls["r1"]
    IN  /\ c.pc = "upsert"
        /\ c.pending[1].summaries = << >>
        /\ c.pending[1].legislative_subjects # {}
        /\ UpstreamSummaries(c.pending[1].congress, c.pending[1].type,
                             c.pending[1].number) # << >>

(***************************************************************************)
(* The cache of MemberMatcher.                                             *)
(***************************************************************************)
\* the identifiers the cache holds under the key of tuple q
Cached(cache, q) == { e.id : e \in { x \in cache : x.key = cache_key(q) } }

\* C23: a lookup whose key is cached returns the cached identifier at once,
\* the store is queried only for a key that is not cached, and an
\* identifier found by the exact or the prefix step is in the cache under
\* the key of the lookup when it is returned.
C23_CacheFirst ==
    [][ /\ (matcher.pc = "idle" /\ matcher'.pc # "idle") =>
              IF Cached(matcher.cache, Asked(matcher')) # {}
              THEN /\ matcher'.pc = "done"
                   /\ matcher'.how = "cache"
                   /\ matcher'.result
                          \in Cached(matcher.cache, Asked(matcher'))
                   /\ matcher'.cache = matcher.cache
              ELSE matcher'.pc = "exact"
        /\ matcher'.pc \in { "exact", "prefix" } =>
              Cached(matcher'.cache, Asked(matcher')) = {}
        /\ (matcher'.pc = "done"
                /\ matcher'.how \in { "exact", "prefix" }) =>
              /\ matcher'.result # ""
              /\ Cached(matcher'.cache, Asked(matcher'))
                     = { matcher'.result } ]_vars

\* a lookup has been answered from the cache
C23_Witness ==
    /\ matcher.pc = "done"
    /\ matcher.how = "cache"
    /\ matcher.result # ""
    /\ Cached(matcher.cache, Asked(matcher)) = { matcher.result }

\* the keys the matcher's cache holds
CacheKeys(m) == { e.key : e \in m.cache }

\* a Senate vote listed before the one in work has been stored with the
\* identifier of a member whose names, state and chamber are the tuple's
ResolvedEarlier(q) ==
    \E v \in votes :
        /\ v.chamber = "senate"
        /\ v.roll_number < vsync.roll
        /\ \E d \in ExactMembers(q) : d.bioguide_id \in DOMAIN v.member_votes

\* C24: during a vote sync the name-match cache loses no key, and a
\* senator tuple resolved while an earlier Senate vote was ingested is
\* answered from the cache when it recurs in a later Senate vote
C24_CacheOutlivesVote ==
    [][ /\ CacheKeys(matcher) \subseteq CacheKeys(matcher')
        /\ (/\ vsync.pc = "match"
            /\ matcher.pc = "idle"
            /\ matcher'.pc # "idle"
            /\ ResolvedEarlier(Asked(matcher'))) =>
               matcher'.how = "cache" ]_vars

\* within one Senate vote the cache loses no key
CacheGrowsWithinVote ==
    [][ vsync.pc = vsync'.pc => CacheKeys(matcher) \subseteq
                                    CacheKeys(matcher') ]_vars

\* C25: the exact-match step selects a stored member only if its first
\* name and its last name each equal the queried one as a whole literal
\* string without regard to case and its state and chamber are the queried
\* ones, whatever characters the queried names contain
C25_ExactIsLiteral ==
    (matcher.pc = "done" /\ matcher.how = "exact") =>
        \E d \in ExactMembers(Asked(matcher)) :
            d.bioguide_id = matcher.result

\* a name in which no character has a meaning in a pattern
Plain(text) ==
    \A i \in DOMAIN text :
        text[i] \notin { ".", "(", ")", "*", "+", "?", "[", "]", "{", "}",
                         "|", "^", "$", "\\" }

\* the same of the tuples whose names are plain
ExactIsLiteralWhenPlain ==
    (/\ matcher.pc = "done"
     /\ matcher.how = "exact"
     /\ Plain(matcher.first_name)
     /\ Plain(matcher.last_name)) =>
        \E d \in ExactMembers(Asked(matcher)) :
            d.bioguide_id = matcher.result

(***************************************************************************)
(* BillService.sync_recent_bills called on its own (bills/services.py      *)
(* 181-264).  The position "recount" of a slot is the one just after       *)
(* sync_recent_bills has returned to its caller.                           *)
(***************************************************************************)
\* mutant: the call goes on without looking into _synced_congresses
sync_recent_bills_NoCheck(p, congress) ==
    /\ calls[p].pc \in { "idle", "recount", "raised" }
    /\ calls' = [calls EXCEPT ![p] =
          IF get_congress_client_ok
          THEN [IdleCall EXCEPT !.pc = "list", !.target = congress,
                                !.sync_calls = 1]
          ELSE [IdleCall EXCEPT !.pc = "raised", !.target = congress,
                                !.sync_calls = 1]]
    /\ UNCHANGED << bills, members, synced, passes, apiKey, now, history >>
    /\ UNCHANGED << memberVars, request >>
    /\ UNCHANGED << voteVars, getbill >>

\* lines 196-204: the call returns 0 at once for a congress in
\* _synced_congresses; otherwise it makes its client (which raises without
\* a key) and goes on to the list request
sync_recent_bills(p, congress) ==
    /\ calls[p].pc \in { "idle", "recount", "raised" }
    /\ calls' = [calls EXCEPT ![p] =
          IF congress \in synced
          THEN [IdleCall EXCEPT !.pc = "recount", !.target = congress,
                                !.sync_ret = 0]
          ELSE IF get_congress_client_ok
               THEN [IdleCall EXCEPT !.pc = "list", !.target = congress,
                                     !.sync_calls = 1]
               ELSE [IdleCall EXCEPT !.pc = "raised", !.target = congress,
                                     !.sync_calls = 1]]
    /\ UNCHANGED << bills, members, synced, passes, apiKey, now, history >>
    /\ UNCHANGED << memberVars, request >>
    /\ UNCHANGED << voteVars, getbill >>

NextSync ==
    \/ \E p \in Procs, congress \in Congresses : sync_recent_bills(p, congress)
    \/ \E p \in Procs : ListFetch(p)
    \/ \E p \in Procs : FindOne(p)
    \/ \E p \in Procs : Detail(p)
    \/ \E p \in Procs : Upsert(p)
    \/ Tick

\* two callers of sync_recent_bills interleaving at their awaits
SpecSync == InitConc /\ [][NextSync]_vars

\* C26: _synced_congresses only grows, and a call of sync_recent_bills for
\* a congress the set already holds returns 0 in its first step, having
\* issued no upstream request and leaving the bills collection as it was
C26_SyncedOnlyGrows ==
    [][ /\ synced \subseteq synced'
        /\ \A p \in Procs :
              (/\ calls[p].pc \in { "idle", "recount", "raised" }
               /\ calls'[p] # calls[p]
               /\ calls'[p].target \in synced) =>
                  /\ calls'[p].pc = "recount"
                  /\ calls'[p].sync_ret = 0
                  /\ ~calls'[p].listed
                  /\ calls'[p].sync_calls = 0
                  /\ bills' = bills
                  /\ synced' = synced ]_vars

\* a call for an already synced congress has returned 0 while the bills of
\* the earlier pass are stored
C26_Witness ==
    \E p \in Procs :
        /\ calls[p].pc = "recount"
        /\ calls[p].target \in synced
        /\ calls[p].sync_calls = 0
        /\ calls[p].sync_ret = 0
        /\ ~calls[p].listed
        /\ bills # {}

\* C27: a lookup whose last name is empty or missing never ends with an
\* identifier
C27_NoIdWithoutLastName ==
    (matcher.pc = "done" /\ matcher.last_name = << >>) =>
        matcher.result = ""

\* the exact step resolves no tuple without a last name as long as no
\* stored member's last name is empty
NoExactWithoutLastName ==
    (matcher.pc = "done" /\ matcher.last_name = << >>) =>
        matcher.how # "exact"

\* the stored members the exact or the fallback filter of the tuple selects
MatchingMembers(q) ==
    { d \in members :
        \/ Matches(ExactQuery(q), d)
        \/ Matches(PrefixQuery(q), d) }

\* C28: a lookup that ends in no match or in a store error leaves the cache
\* as it was and the tuple uncached; a lookup of an uncached tuple queries
\* the store; and a lookup the store answers resolves when the members
\* collection holds a member matching the tuple
C28_FailureNotCached ==
    [][ /\ (/\ matcher.pc \in { "exact", "prefix" }
            /\ matcher'.pc = "done"
            /\ matcher'.result = "") =>
               /\ matcher'.cache = matcher.cache
               /\ cache_key(Asked(matcher')) \notin CacheKeys(matcher')
        /\ (/\ matcher.pc = "idle"
            /\ matcher'.pc # "idle"
            /\ cache_key(Asked(matcher')) \notin CacheKeys(matcher)) =>
               matcher'.pc = "exact"
        /\ (/\ matcher.pc \in { "exact", "prefix" }
            /\ matcher'.pc = "done"
            /\ matcher'.how \notin { "down", "rejected" }
            /\ MatchingMembers(Asked(matcher)) # {}) =>
               matcher'.result # "" ]_vars

\* a lookup has ended in no match on a matcher whose cache holds another
\* tuple, and the tuple looked up is not in the cache
C28_Witness ==
    /\ matcher.pc = "done"
    /\ matcher.how = "none"
    /\ matcher.result = ""
    /\ matcher.cache # {}
    /\ cache_key(Asked(matcher)) \notin CacheKeys(matcher)

\* the tuple that no member matched at first is resolved by the store after
\* its member has been added
C28_WitnessResolved ==
    /\ matcher.pc = "done"
    /\ matcher.how = "exact"
    /\ matcher.result = Smithson.bioguide_id
    /\ matcher.cache # {}

\* the steps of the command's coroutine
SyncSteps ==
    \/ VoteBatch
    \/ VoteFetchHouse
    \/ VoteParse
    \/ VoteMatch
    \/ MatchExact
    \/ MatchPrefix
    \/ VoteMatched
    \/ VoteStore

\* The command runs its coroutine with loop.run_until_complete
\* (sync_votes.py:65-68): the event loop resumes it whenever the request it
\* awaits has ended, and every request ends, with an answer or, at the
\* latest after the client's timeout, with an exception.
SpecVoteSyncFair == SpecVoteSync /\ WF_vars(SyncSteps)

\* _sync_chamber_votes is running
InRun == vsync.pc \notin { "idle", "returned" }

\* the stored votes of a chamber
StoredVotes(chamber) == { v \in votes : v.chamber = chamber }

\* C29: _sync_chamber_votes terminates; a step after which the loop goes
\* into another iteration has advanced offset by the length of its
\* non-empty batch, and offset changes in no other way during the run; the
\* votes counted and the votes stored never exceed limit
C29_LoopTerminates ==
    /\ [][ /\ (InRun /\ vsync' # vsync /\ vsync'.pc = "batch") =>
                 /\ vsync'.count > 0
                 /\ vsync'.offset = vsync.offset + vsync'.count
           /\ (InRun /\ vsync'.offset # vsync.offset) =>
                 /\ vsync'.count > 0
                 /\ vsync'.offset = vsync.offset + vsync'.count
                 /\ vsync'.pc \in { "batch", "returned" } ]_vars
    /\ [](vsync.pc # "idle" =>
             /\ vsync.synced <= vsync.limit
             /\ Cardinality(StoredVotes(vsync.chamber)) <= vsync.synced)
    /\ (InRun ~> vsync.pc = "returned")

\* a run has returned after three iterations in which every vote failed:
\* nothing was stored and offset has passed the upstream list
C29_Witness ==
    /\ vsync.pc = "returned"
    /\ vsync.chamber = "senate"
    /\ vsync.limit = 2
    /\ vsync.synced = 0
    /\ vsync.errors = 3
    /\ vsync.offset = Len(UpstreamVotes("senate"))
    /\ StoredVotes("senate") = {}

\* a run has stored as many votes as its limit allows while upstream lists
\* more
C29_WitnessFull ==
    /\ vsync.pc = "returned"
    /\ vsync.chamber = "senate"
    /\ vsync.synced = vsync.limit
    /\ vsync.limit > 0
    /\ vsync.offset < Len(UpstreamVotes("senate"))

(***************************************************************************)
(* retry_on_failure around CongressClient._get (members/clients/           *)
(* congress.py 19-62, 101-113): one action per await, the GET and the      *)
(* sleep before the next attempt.                                          *)
(***************************************************************************)
\* MAX_RETRIES and BACKOFF_BASE, the defaults _get is decorated with
MAX_RETRIES == 3
BACKOFF_BASE == 1

\* how an attempt can end: a response whose status raise_for_status
\* accepts or turns into httpx.HTTPStatusError, a body response.json()
\* cannot decode, or httpx.RequestError before any response
Outcomes ==
    { [kind |-> "response", status_code |-> 200],
      [kind |-> "undecodable", status_code |-> 200],
      [kind |-> "response", status_code |-> 404],
      [kind |-> "response", status_code |-> 429],
      [kind |-> "response", status_code |-> 500],
      [kind |-> "response", status_code |-> 503],
      [kind |-> "RequestError", status_code |-> 0] }

\* the attempt returned response.json()
Succeeded(outcome) ==
    outcome.kind = "response" /\ outcome.status_code \in 200..299

\* mutant: every failure is retried
Retried_Any(outcome) == ~Succeeded(outcome)

\* the failures the wrapper sleeps on and goes on after: status 429,
\* status >= 500 and httpx.RequestError (lines 36-57)
Retried(outcome) ==
    \/ outcome.kind = "RequestError"
    \/ /\ outcome.kind = "response"
       /\ ~Succeeded(outcome)
       /\ outcome.status_code = 429 \/ outcome.status_code >= 500

\* a GET through _get is called
GetStart ==
    /\ request.pc \in { "idle", "returned", "raised" }
    /\ request' = [IdleRequest EXCEPT !.pc = "attempt"]
    /\ UNCHANGED << memberVars, members >>
    /\ UNCHANGED billVars
    /\ UNCHANGED voteVars

\* lines 33-57 and 108-113: the attempt is made; it returns, or its
\* failure is noted for the sleep, or is raised at once
GetAttempt(outcome) ==
    /\ request.pc = "attempt"
    /\ request' =
           IF Succeeded(outcome)
           THEN [request EXCEPT !.pc = "returned",
                                !.tried = Append(@, outcome)]
           ELSE IF Retried(outcome)
                THEN [request EXCEPT !.pc = "sleep",
                                     !.tried = Append(@, outcome)]
                ELSE [request EXCEPT !.pc = "raised",
                                     !.tried = Append(@, outcome),
                                     !.raised = outcome]
    /\ UNCHANGED << memberVars, members >>
    /\ UNCHANGED billVars
    /\ UNCHANGED voteVars

\* await asyncio.sleep(delay) has ended: last_exception = e, then the next
\* round of the for loop or, after it, raise last_exception (line 58)
GetSleep ==
    /\ request.pc = "sleep"
    /\ LET r == [request EXCEPT
                    !.slept = Append(@, BACKOFF_BASE * 2^request.attempt),
                    !.last_exception = request.tried[Len(request.tried)],
                    !.attempt = @ + 1]
       IN  request' =
               IF r.attempt < MAX_RETRIES
               THEN [r EXCEPT !.pc = "attempt"]
               ELSE [r EXCEPT !.pc = "raised", !.raised = r.last_exception]
    /\ UNCHANGED << memberVars, members >>
    /\ UNCHANGED billVars
    /\ UNCHANGED voteVars

NextRetry ==
    \/ GetStart
    \/ \E outcome \in Outcomes : GetAttempt(outcome)
    \/ GetSleep

SpecRetry == InitMatch /\ [][NextRetry]_vars

\* 429, a status from 500 on, or a transport error
Transient(outcome) ==
    \/ outcome.kind = "RequestError"
    \/ outcome.kind = "response" /\ outcome.status_code = 429
    \/ outcome.kind = "response" /\ outcome.status_code >= 500

\* the last attempt made
LastTried == request.tried[Len(request.tried)]

\* C30: a GET is attempted at most three times; the i-th attempt is
\* followed by another only after a 429, a 5xx or a transport error and a
\* sleep of backoff_base * 2^(i-1); any other failure is raised by the
\* attempt it occurs in; a value is returned only by an attempt that
\* succeeded, and after a third failure its exception is what is raised
C30_AtMostThreeAttempts ==
    /\ Len(request.tried) <= 3
    /\ Len(request.slept) <= Len(request.tried)
    /\ \A i \in DOMAIN request.slept :
          /\ request.slept[i] = BACKOFF_BASE * 2^(i - 1)
          /\ Transient(request.tried[i])
    /\ \A i \in DOMAIN request.tried :
          i < Len(request.tried) =>
              /\ Transient(request.tried[i])
              /\ i \in DOMAIN request.slept
    /\ request.pc = "attempt" => Len(request.slept) = Len(request.tried)
    /\ request.pc = "sleep" =>
          /\ Transient(LastTried)
          /\ Len(request.slept) = Len(request.tried) - 1
    /\ request.pc = "returned" => Succeeded(LastTried)
    /\ request.pc = "raised" =>
          /\ ~Succeeded(LastTried)
          /\ request.raised = LastTried
          /\ Transient(LastTried) =>
                /\ Len(request.tried) = 3
                /\ request.slept = << BACKOFF_BASE, 2 * BACKOFF_BASE,
                                      4 * BACKOFF_BASE >>
          /\ ~Transient(LastTried) =>
                Len(request.slept) = Len(request.tried) - 1

\* three attempts failed with a 429, a 503 and a transport error, the
\* sleeps were 1, 2 and 4, and the transport error was raised
C30_Witness ==
    /\ request.pc = "raised"
    /\ Len(request.tried) = 3
    /\ request.tried[1].status_code = 429
    /\ request.tried[2].status_code = 503
    /\ request.tried[3].kind = "RequestError"
    /\ request.slept = << 1, 2, 4 >>
    /\ request.raised = request.tried[3]

\* a 404 that followed a 500 was raised by the second attempt
C30_WitnessNoRetry ==
    /\ request.pc = "raised"
    /\ Len(request.tried) = 2
    /\ request.tried[1].status_code = 500
    /\ request.raised.status_code = 404
    /\ request.slept = << 1 >>

====
